---- MODULE Spec2Model ----
(***************************************************************************)
(* usbfs-rs: the asynchronous transfer engine (AsyncDevice), the transfer  *)
(* kinds that render themselves into URBs (wire_urb), and the usbfs        *)
(* submit / reap ioctls they are driven through.                           *)
(*                                                                         *)
(* A transfer object is a Box<T>: its URB lives at a fixed heap address,   *)
(* so the URB address the kernel is given and later returns is modelled by *)
(* the identity of the transfer object (an element of Xfers).              *)
(***************************************************************************)
EXTENDS Integers, Sequences, FiniteSets, TLC

\* ---------------------------------------------------------------- bounds
NumXfers == 2
MaxAccepts == 3
MaxPayload == 2
MaxStale == 1
MaxIsoLen == 66
MaxIsoCap == 2
MaxCtlPayload == 3
MaxDataLen == 2
MaxEntries == 3

\* ------------------------------------------------------ program constants
MAX_ISO_PACKETS == 32
SETUP_LEN == 8
EINVAL_STATUS == -22
U16_MAX == 65535
URBTYPE_INTERRUPT == 1
URBTYPE_BULK == 3
STREAM_TRANSFERS == 2

Xfers == 1..NumXfers
None == 0
NullPtr == 0

Max(a, b) == IF a >= b THEN a ELSE b
Min(a, b) == IF a <= b THEN a ELSE b
SetMin(S) == CHOOSE m \in S : \A n \in S : m <= n

\* ------------------------------------------------------------ wire records

\* Urb::default(): status -22, everything else zero / null.
UrbDefault ==
    [buffer |-> NullPtr, buffer_length |-> 0, actual_length |-> 0,
     status |-> EINVAL_STATUS, number_of_packets |-> 0, usercontext |-> 0]

\* IsoPacketDesc::default()
IsoPacketDescDefault ==
    [length |-> 0, actual_length |-> 0, status |-> EINVAL_STATUS]

NoPackets == <<>>
DefaultPackets == [i \in 1..MAX_ISO_PACKETS |-> IsoPacketDescDefault]

\* Setup::new: bmRequestType is the OR of three disjoint bit fields, which
\* is their sum.
SetupNew(direction, stype, recipient, request, value, index, length) ==
    [bmRequestType |-> direction + stype + recipient, bRequest |-> request,
     wValue |-> value, wIndex |-> index, wLength |-> length]

NoSetup == SetupNew(0, 0, 0, 0, 0, 0, 0)

\* The 8 bytes of a Setup<BusEndian> in memory: each u16 went through to_le()
\* and is then stored natively, so its low byte comes first.
SetupImage(s) ==
    << s.bmRequestType, s.bRequest,
       s.wValue % 256, s.wValue \div 256,
       s.wIndex % 256, s.wIndex \div 256,
       s.wLength % 256, s.wLength \div 256 >>

\* -------------------------------------------------------- transfer objects

\* A buffer: the address of its storage and its bytes.
Buffer(addr, len, fill) == [addr |-> addr, bytes |-> [i \in 1..len |-> fill]]

\* ControlTransferMut::new: wLength 0, set at wire_urb time.
ControlTransferMutNew(direction, stype, recipient, request, value, index, buf) ==
    [kind |-> "control", urb |-> UrbDefault, iso_packets |-> NoPackets,
     setup |-> SetupNew(direction, stype, recipient, request, value, index, 0),
     plen |-> 0, buf |-> buf]

\* BulkTransferMut::new
BulkTransferMutNew(buf) ==
    [kind |-> "bulk", urb |-> UrbDefault, iso_packets |-> NoPackets,
     setup |-> NoSetup, plen |-> 0, buf |-> buf]

\* IsoBufTransfer::isochronous; plen is the buffer's IsoBuffer::packet_length().
IsoBufTransferNew(plen, buf) ==
    [kind |-> "iso", urb |-> UrbDefault, iso_packets |-> DefaultPackets,
     setup |-> NoSetup, plen |-> plen, buf |-> buf]

\* StdBufTransfer::isochronous: one packet descriptor, number_of_packets 1.
StdBufTransferIsochronous(buf) ==
    [kind |-> "std_iso",
     urb |-> [UrbDefault EXCEPT !.number_of_packets = 1],
     iso_packets |-> << IsoPacketDescDefault >>,
     setup |-> NoSetup, plen |-> 0, buf |-> buf]

\* StdBufTransfer::control (for a buffer of at least 8 bytes; a shorter one
\* makes the constructor panic): the setup packet, with the payload length of
\* the buffer given, is written into the first 8 bytes of the buffer.  The
\* struct keeps no Setup; the field setup records what the constructor wrote.
StdBufTransferControl(direction, stype, recipient, request, value, index, buf) ==
    LET len   == Len(buf.bytes)
        setup == SetupNew(direction, stype, recipient, request, value, index,
                          (len - SETUP_LEN) % 65536)
        img   == SetupImage(setup)
    IN  [kind |-> "std_control", urb |-> UrbDefault,
         iso_packets |-> << IsoPacketDescDefault >>,
         setup |-> setup, plen |-> 0,
         buf |-> [buf EXCEPT !.bytes =
                    [i \in 1..len |->
                       IF i <= SETUP_LEN THEN img[i] ELSE buf.bytes[i]]]]

\* ----------------------------------------------------------------- wire_urb
\* Each wire_urb yields [panic, t]: panic is TRUE when it panicked, t is the
\* transfer object after the call.

\* wire_urb for a control transfer that also clears the payload behind the
\* setup packet.
WireUrbControlClobber(t) ==
    LET len == Len(t.buf.bytes)
    IN  IF len < SETUP_LEN
        THEN [panic |-> TRUE, t |-> t]
        ELSE LET setup == [t.setup EXCEPT !.wLength = (len - SETUP_LEN) % 65536]
                 img   == SetupImage(setup)
                 bytes == [i \in 1..len |-> IF i <= SETUP_LEN THEN img[i] ELSE 0]
             IN  [panic |-> FALSE,
                  t |-> [t EXCEPT !.setup = setup,
                                  !.buf.bytes = bytes,
                                  !.urb.buffer = t.buf.addr,
                                  !.urb.buffer_length = len]]

\* ControlTransferMut::wire_urb
WireUrbControl(t) ==
    LET len == Len(t.buf.bytes)
    IN  IF len < SETUP_LEN
        THEN [panic |-> TRUE, t |-> t]
        ELSE LET setup == [t.setup EXCEPT !.wLength = (len - SETUP_LEN) % 65536]
                 img   == SetupImage(setup)
                 bytes == [i \in 1..len |->
                              IF i <= SETUP_LEN THEN img[i] ELSE t.buf.bytes[i]]
             IN  [panic |-> FALSE,
                  t |-> [t EXCEPT !.setup = setup,
                                  !.buf.bytes = bytes,
                                  !.urb.buffer = t.buf.addr,
                                  !.urb.buffer_length = len]]

\* BulkTransferMut::wire_urb
WireUrbBulk(t) ==
    [panic |-> FALSE,
     t |-> [t EXCEPT !.urb.buffer = t.buf.addr,
                     !.urb.buffer_length = Len(t.buf.bytes)]]

\* A descriptor loop that gives every packet the full packet length, the
\* last one too.
IsoFillUnlimited(pk, i, tot_length, length) ==
    LET n == Min((tot_length + length - 1) \div length, Len(pk))
    IN  [iso_packets |-> [j \in 1..Len(pk) |->
                            IF j <= n
                            THEN [length |-> length, actual_length |-> 0,
                                  status |-> EINVAL_STATUS]
                            ELSE pk[j]],
         tot_packets |-> n]

\* The descriptor loop of IsoBufTransfer::wire_urb, from descriptor i on;
\* yields the descriptors and tot_packets.
RECURSIVE IsoFill(_, _, _, _)
IsoFill(pk, i, tot_length, length) ==
    IF i > Len(pk) \/ tot_length = 0
    THEN [iso_packets |-> pk, tot_packets |-> i - 1]
    ELSE LET limited_length == Min(tot_length, length)
         IN  IsoFill([pk EXCEPT ![i] = [length |-> limited_length,
                                        actual_length |-> 0,
                                        status |-> EINVAL_STATUS]],
                     i + 1, tot_length - limited_length, length)

\* An isochronous wire_urb that refuses a buffer its descriptors cannot
\* cover.
WireUrbIsoStrict(t) ==
    LET f == IsoFill(t.iso_packets, 1, Len(t.buf.bytes), t.plen)
    IN  IF Len(t.buf.bytes) > Len(t.iso_packets) * t.plen
        THEN [panic |-> TRUE, t |-> t]
        ELSE [panic |-> FALSE,
              t |-> [t EXCEPT !.iso_packets = f.iso_packets,
                              !.urb.buffer = t.buf.addr,
                              !.urb.number_of_packets = f.tot_packets]]

\* An isochronous wire_urb that reports the number of packets the buffer
\* needs, not the number of descriptors it filled.
WireUrbIsoCountNeeded(t) ==
    LET f == IsoFill(t.iso_packets, 1, Len(t.buf.bytes), t.plen)
    IN  [panic |-> FALSE,
         t |-> [t EXCEPT !.iso_packets = f.iso_packets,
                         !.urb.buffer = t.buf.addr,
                         !.urb.number_of_packets =
                             (Len(t.buf.bytes) + t.plen - 1) \div t.plen]]

\* IsoBufTransfer::wire_urb
WireUrbIso(t) ==
    LET f == IsoFill(t.iso_packets, 1, Len(t.buf.bytes), t.plen)
    IN  [panic |-> FALSE,
         t |-> [t EXCEPT !.iso_packets = f.iso_packets,
                         !.urb.buffer = t.buf.addr,
                         !.urb.number_of_packets = f.tot_packets]]

\* StdBufTransfer::wire_urb: the isochronous arm sets the buffer pointer and
\* the length of the one descriptor; the other arm sets pointer and length.
WireUrbStd(t) ==
    IF t.kind = "std_iso"
    THEN [panic |-> FALSE,
          t |-> [t EXCEPT !.urb.buffer = t.buf.addr,
                          !.iso_packets[1].length = Len(t.buf.bytes)]]
    ELSE [panic |-> FALSE,
          t |-> [t EXCEPT !.urb.buffer = t.buf.addr,
                          !.urb.buffer_length = Len(t.buf.bytes)]]

\* The bulk and interrupt transfer types of monotransfer.rs.  The two over
\* an immutable buffer (B: AsRef<[u8]>) are for OUT endpoints only.  All
\* four have the same wire_urb: buffer pointer and buffer length.
ImmutableKinds == {"BulkTransfer", "InterruptTransfer"}
MonoKinds == ImmutableKinds \cup {"BulkTransferMut", "InterruptTransferMut"}

\* endpoint & 0x80 # 0 for a u8 endpoint: the direction bit, set for IN.
IsInEndpoint(endpoint) == (endpoint \div 128) % 2 = 1

\* Urb { urbtype, endpoint, flags, ..Urb::default() }
UrbWith(urbtype, endpoint) ==
    [buffer |-> NullPtr, buffer_length |-> 0, actual_length |-> 0,
     status |-> EINVAL_STATUS, number_of_packets |-> 0, usercontext |-> 0,
     urbtype |-> urbtype, endpoint |-> endpoint]

\* The transfer object the four constructors build.
MonoTransfer(kind, urbtype, endpoint, buf) ==
    [kind |-> kind, urb |-> UrbWith(urbtype, endpoint),
     iso_packets |-> NoPackets, setup |-> NoSetup, plen |-> 0, buf |-> buf]

\* A BulkTransfer::new without its assertion.
BulkTransferNewUnchecked(endpoint, buf) ==
    [panic |-> FALSE,
     t |-> MonoTransfer("BulkTransfer", URBTYPE_BULK, endpoint, buf)]

\* BulkTransfer::new: assert!(0 == endpoint & 0x80), then the object.
BulkTransferNew(endpoint, buf) ==
    IF IsInEndpoint(endpoint) THEN [panic |-> TRUE, t |-> None]
    ELSE [panic |-> FALSE,
          t |-> MonoTransfer("BulkTransfer", URBTYPE_BULK, endpoint, buf)]

\* BulkTransferMut::new, with its endpoint: no assertion.
BulkTransferMutOn(endpoint, buf) ==
    [panic |-> FALSE,
     t |-> MonoTransfer("BulkTransferMut", URBTYPE_BULK, endpoint, buf)]

\* InterruptTransfer::new: assert!(0 == endpoint & 0x80), then the object.
InterruptTransferNew(endpoint, buf) ==
    IF IsInEndpoint(endpoint) THEN [panic |-> TRUE, t |-> None]
    ELSE [panic |-> FALSE,
          t |-> MonoTransfer("InterruptTransfer", URBTYPE_INTERRUPT,
                             endpoint, buf)]

\* InterruptTransferMut::new: no assertion.
InterruptTransferMutNew(endpoint, buf) ==
    [panic |-> FALSE,
     t |-> MonoTransfer("InterruptTransferMut", URBTYPE_INTERRUPT,
                        endpoint, buf)]

\* The constructor of the type named kind.
MonoNew(kind, endpoint, buf) ==
    CASE kind = "BulkTransfer"      -> BulkTransferNew(endpoint, buf)
      [] kind = "BulkTransferMut"   -> BulkTransferMutOn(endpoint, buf)
      [] kind = "InterruptTransfer" -> InterruptTransferNew(endpoint, buf)
      [] OTHER                      -> InterruptTransferMutNew(endpoint, buf)

\* A wire_urb that wires a transfer only the first time and leaves an
\* already wired URB as it is.
WireUrbOnce(t) ==
    IF t.urb.buffer # NullPtr THEN [panic |-> FALSE, t |-> t]
    ELSE CASE t.kind = "control" -> WireUrbControl(t)
           [] t.kind = "bulk"    -> WireUrbBulk(t)
           [] OTHER              -> WireUrbIso(t)

\* Transfer::wire_urb, dispatched on the concrete type.
WireUrb(t) ==
    CASE t.kind = "control" -> WireUrbControl(t)
      [] t.kind = "bulk"    -> WireUrbBulk(t)
      [] t.kind = "std_iso" -> WireUrbStd(t)
      [] t.kind = "std_control" -> WireUrbStd(t)
      [] t.kind \in MonoKinds -> WireUrbBulk(t)
      [] OTHER              -> WireUrbIso(t)

\* IsoBufTransfer::status: the slice iso_packets[..number_of_packets as
\* usize], which panics when the end is past the array (a negative count
\* becomes a huge usize).
IsoBufTransferStatus(t) ==
    LET n == t.urb.number_of_packets
    IN  IF n \in 0..Len(t.iso_packets)
        THEN [panic |-> FALSE, val |-> SubSeq(t.iso_packets, 1, n)]
        ELSE [panic |-> TRUE, val |-> <<>>]

\* StdBufTransfer::status_to_nixresult: a negative status is an error, made
\* by nix::Error::from_i32 from the status (errno is its argument).
status_to_nixresult(st) ==
    IF st < 0 THEN [ok |-> FALSE, errno |-> st] ELSE [ok |-> TRUE]

\* result_length without the status check.
result_length_unchecked(t) ==
    [ok |-> TRUE, errno |-> 0,
     val |-> IF t.kind = "std_iso" THEN t.iso_packets[1].actual_length
             ELSE t.urb.actual_length]

\* StdBufTransfer::result_length: status and actual length of packet 0 for
\* an isochronous transfer, of the URB otherwise.
result_length(t) ==
    LET st     == IF t.kind = "std_iso" THEN t.iso_packets[1].status
                  ELSE t.urb.status
        length == IF t.kind = "std_iso" THEN t.iso_packets[1].actual_length
                  ELSE t.urb.actual_length
        r      == status_to_nixresult(st)
    IN  IF r.ok THEN [ok |-> TRUE, errno |-> 0, val |-> length]
        ELSE [ok |-> FALSE, errno |-> r.errno, val |-> 0]

\* ------------------------------------------------------------ error values

\* An error conversion that builds every io::Error with kind Other.
ErrorKindOther(errno) == "Other"

\* nix_result_to_io_result / nix_err_to_io_err: io::Error::from(errno).  The
\* io::Error keeps the errno and answers kind() from it.
ErrorKind(errno) ==
    CASE errno = "EAGAIN" -> "WouldBlock"
      [] errno = "EINTR"  -> "Interrupted"
      [] errno = "EINVAL" -> "InvalidInput"
      [] OTHER            -> "Other"

nix_result_to_io_result(res) ==
    IF res.ok THEN res
    ELSE [ok |-> FALSE, errno |-> res.errno, kind |-> ErrorKind(res.errno)]

NoError == [errno |-> "none", kind |-> "none"]
IoError(r) == [errno |-> r.errno, kind |-> r.kind]

\* ------------------------------------------------------------- usbfs ioctls
\* The kernel side of the three ioctls.  kdone is the queue of completed,
\* not yet reaped URBs (user URB address and completion status); gone is
\* TRUE once the device is disconnected.

\* USBDEVFS_SUBMITURB: the kernel's verdict is an input (accept).
submiturb(accept, gone) ==
    IF gone THEN [ok |-> FALSE, errno |-> "ENODEV"]
    ELSE IF accept THEN [ok |-> TRUE]
    ELSE [ok |-> FALSE, errno |-> "EINVAL"]

\* USBDEVFS_REAPURBNDELAY
reapurbndelay(kdone, gone) ==
    IF kdone # <<>> THEN [ok |-> TRUE, block |-> FALSE, urbp |-> Head(kdone).urbp]
    ELSE IF gone THEN [ok |-> FALSE, block |-> FALSE, errno |-> "ENODEV"]
    ELSE [ok |-> FALSE, block |-> FALSE, errno |-> "EAGAIN"]

\* USBDEVFS_REAPURB: sleeps (block) until a completion, a disconnect or a
\* signal (sig).
reapurb(kdone, gone, sig) ==
    IF kdone # <<>> THEN [ok |-> TRUE, block |-> FALSE, urbp |-> Head(kdone).urbp]
    ELSE IF gone THEN [ok |-> FALSE, block |-> FALSE, errno |-> "ENODEV"]
    ELSE IF sig THEN [ok |-> FALSE, block |-> FALSE, errno |-> "EINTR"]
    ELSE [ok |-> FALSE, block |-> TRUE]

\* What a successful reap ioctl writes to the user URB: status and actual
\* length, and for isochronous URBs the same per submitted packet.
KernelWriteBack(t, status) ==
    LET n == t.urb.number_of_packets
    IN  [t EXCEPT
           !.urb.status = status,
           !.urb.actual_length =
               IF status = 0 /\ t.kind \notin {"iso", "std_iso"}
               THEN t.urb.buffer_length ELSE 0,
           !.iso_packets =
               [i \in 1..Len(t.iso_packets) |->
                  IF i <= n
                  THEN [t.iso_packets[i] EXCEPT
                          !.status = status,
                          !.actual_length =
                              IF status = 0 THEN t.iso_packets[i].length ELSE 0]
                  ELSE t.iso_packets[i]]]

\* ------------------------------------------------------------- AsyncDevice
\* The slot table transfers is a sequence of None or a transfer object;
\* slot numbers are 0-based as in the source.

\* insert_transfer that takes slot 0 of a non-empty table whether it is free
\* or not.
InsertTransferOverwrite(tbl, x) ==
    IF Len(tbl) > 0
    THEN [transfers |-> [tbl EXCEPT ![1] = x], slot |-> 0]
    ELSE [transfers |-> Append(tbl, x), slot |-> 0]

\* insert_transfer that always pushes a new slot.
InsertTransferAppend(tbl, x) ==
    [transfers |-> Append(tbl, x), slot |-> Len(tbl)]

\* AsyncDevice::insert_transfer; yields the table and the slot.
InsertTransfer(tbl, x) ==
    LET free == {i \in 1..Len(tbl) : tbl[i] = None}
    IN  IF free # {}
        THEN [transfers |-> [tbl EXCEPT ![SetMin(free)] = x],
              slot |-> SetMin(free) - 1]
        ELSE [transfers |-> Append(tbl, x), slot |-> Len(tbl)]

\* The slots of a table that hold transfer x, and the occupied ones.
SlotsOf(tbl, x) == {i \in 1..Len(tbl) : tbl[i] = x}
Occupied(tbl) == {i \in 1..Len(tbl) : tbl[i] # None}

\* take_transfer that copies the occupant out and leaves it in the slot.
TakeTransferKeep(tbl, id) ==
    IF id + 1 \in 1..Len(tbl) /\ tbl[id + 1] # None
    THEN [transfers |-> tbl, val |-> tbl[id + 1]]
    ELSE [transfers |-> tbl, val |-> None]

\* take_transfer that removes the slot from the table (Vec::remove), which
\* moves every later slot down by one.
TakeTransferRemove(tbl, id) ==
    IF id + 1 \in 1..Len(tbl) /\ tbl[id + 1] # None
    THEN [transfers |-> SubSeq(tbl, 1, id) \o SubSeq(tbl, id + 2, Len(tbl)),
          val |-> tbl[id + 1]]
    ELSE [transfers |-> tbl, val |-> None]

\* take_transfer that pops the slot when it is the table's last one.
TakeTransferTruncate(tbl, id) ==
    IF id + 1 \in 1..Len(tbl) /\ tbl[id + 1] # None
    THEN [transfers |-> IF id + 1 = Len(tbl) THEN SubSeq(tbl, 1, id)
                        ELSE [tbl EXCEPT ![id + 1] = None],
          val |-> tbl[id + 1]]
    ELSE [transfers |-> tbl, val |-> None]

\* AsyncDevice::take_transfer; yields the table and the Option taken.
TakeTransfer(tbl, id) ==
    IF id + 1 \in 1..Len(tbl) /\ tbl[id + 1] # None
    THEN [transfers |-> [tbl EXCEPT ![id + 1] = None], val |-> tbl[id + 1]]
    ELSE [transfers |-> tbl, val |-> None]

\* submit_give_back_on_fail without the tag stamping.
StampTagSkipped(t, id) == t

\* A tag stamping that stamps only a URB that was never completed and leaves
\* the tag of a resubmitted transfer at its previous value.
StampTagFirstOnly(t, id) ==
    IF t.urb.status = EINVAL_STATUS THEN [t EXCEPT !.urb.usercontext = id]
    ELSE t

\* The tag submit_give_back_on_fail writes into the URB after insertion.
StampTag(t, id) == [t EXCEPT !.urb.usercontext = id]

\* submit_give_back_on_fail that hands the transfer back on rejection without
\* taking it out of its slot.
SubmitGiveBackOnFailLeak(tbl, x, t, accept, gone) ==
    LET w == WireUrb(t)
    IN  IF w.panic
        THEN [res |-> "panic", transfers |-> tbl, t |-> w.t, slot |-> {},
              back |-> None, dropped |-> {x}, err |-> NoError,
              ioctls |-> <<>>]
        ELSE LET ins == InsertTransfer(tbl, x)
                 t2  == StampTag(w.t, ins.slot)
                 k   == nix_result_to_io_result(submiturb(accept, gone))
             IN  IF k.ok
                 THEN [res |-> "Ok", transfers |-> ins.transfers, t |-> t2,
                       slot |-> {ins.slot}, back |-> None, dropped |-> {},
                       err |-> NoError, ioctls |-> <<"SUBMITURB">>]
                 ELSE [res |-> "Err", transfers |-> ins.transfers, t |-> t2,
                       slot |-> {}, back |-> x, dropped |-> {},
                       err |-> IoError(k), ioctls |-> <<"SUBMITURB">>]

\* submit_give_back_on_fail that puts the transfer into its slot before it
\* wires it.
SubmitGiveBackOnFailInsertFirst(tbl, x, t, accept, gone) ==
    LET w   == WireUrb(t)
        ins == InsertTransfer(tbl, x)
        t2  == StampTag(w.t, ins.slot)
        k   == nix_result_to_io_result(submiturb(accept, gone))
        tk  == TakeTransfer(ins.transfers, ins.slot)
    IN  IF w.panic
        THEN [res |-> "panic", transfers |-> ins.transfers, t |-> w.t,
              slot |-> {}, back |-> None, dropped |-> {}, err |-> NoError,
              ioctls |-> <<>>]
        ELSE IF k.ok
        THEN [res |-> "Ok", transfers |-> ins.transfers, t |-> t2,
              slot |-> {ins.slot}, back |-> None, dropped |-> {},
              err |-> NoError, ioctls |-> <<"SUBMITURB">>]
        ELSE [res |-> "Err", transfers |-> tk.transfers, t |-> t2,
              slot |-> {}, back |-> tk.val, dropped |-> {},
              err |-> IoError(k), ioctls |-> <<"SUBMITURB">>]

\* AsyncDevice::submit_give_back_on_fail on table tbl for transfer object x
\* whose contents are t.  Yields the outcome (res: Ok slot / Err with the
\* transfer handed back / panic), the table, the transfer's contents, the
\* URB as the kernel saw it and the ioctls issued.
SubmitGiveBackOnFail(tbl, x, t, accept, gone) ==
    LET w == WireUrb(t)
    IN  IF w.panic
        THEN [res |-> "panic", transfers |-> tbl, t |-> w.t, slot |-> {},
              back |-> None, dropped |-> {x}, err |-> NoError,
              ioctls |-> <<>>]
        ELSE LET ins == InsertTransfer(tbl, x)
                 t2  == StampTag(w.t, ins.slot)
                 k   == nix_result_to_io_result(submiturb(accept, gone))
                 tk  == TakeTransfer(ins.transfers, ins.slot)
             IN  IF k.ok
                 THEN [res |-> "Ok", transfers |-> ins.transfers, t |-> t2,
                       slot |-> {ins.slot}, back |-> None, dropped |-> {},
                       err |-> NoError, ioctls |-> <<"SUBMITURB">>]
                 ELSE IF tk.val = None
                 THEN [res |-> "panic", transfers |-> tk.transfers, t |-> t2,
                       slot |-> {}, back |-> None, dropped |-> {},
                       err |-> NoError, ioctls |-> <<"SUBMITURB">>]
                 ELSE [res |-> "Err", transfers |-> tk.transfers, t |-> t2,
                       slot |-> {}, back |-> tk.val, dropped |-> {},
                       err |-> IoError(k), ioctls |-> <<"SUBMITURB">>]

\* A submit that, when the kernel rejects the URB, drops the transfer where
\* it sits in the slot table instead of taking it out first.
SubmitDropInSlot(tbl, x, t, accept, gone) ==
    LET r == SubmitGiveBackOnFail(tbl, x, t, accept, gone)
    IN  IF r.res = "Err"
        THEN [r EXCEPT !.back = None, !.dropped = {r.back},
                       !.transfers = InsertTransfer(tbl, x).transfers]
        ELSE r

\* AsyncDevice::submit: the same, with the transfer handed back dropped.
SubmitDrop(tbl, x, t, accept, gone) ==
    LET r == SubmitGiveBackOnFail(tbl, x, t, accept, gone)
    IN  IF r.res = "Err"
        THEN [r EXCEPT !.back = None, !.dropped = {r.back}]
        ELSE r

\* reap_main that uses the non-blocking ioctl whatever wait says.
ReapIoctlNoDelay(wait) == "REAPURBNDELAY"

\* The ioctl reap_main issues.
ReapIoctl(wait) == IF wait THEN "REAPURB" ELSE "REAPURBNDELAY"

ReapAnswer(ioctl, kdone, gone, sig) ==
    IF ioctl = "REAPURB" THEN reapurb(kdone, gone, sig)
    ELSE reapurbndelay(kdone, gone)

\* reap_main that returns the occupant of the tagged slot and leaves it
\* there.
ReapMainPeek(tbl, wait, k0, tag) ==
    LET k  == nix_result_to_io_result(k0)
        tk == TakeTransfer(tbl, tag)
    IN  IF ~k.ok
        THEN [res |-> "Err", transfers |-> tbl, val |-> None,
              err |-> IoError(k), ioctls |-> <<ReapIoctl(wait)>>]
        ELSE IF tk.val = None
        THEN [res |-> "panic", transfers |-> tbl, val |-> None,
              err |-> NoError, ioctls |-> <<ReapIoctl(wait)>>]
        ELSE [res |-> "Ok", transfers |-> tbl, val |-> tk.val,
              err |-> NoError, ioctls |-> <<ReapIoctl(wait)>>]

\* reap_main that reports an empty tagged slot as an error value.
ReapMainNoPanic(tbl, wait, k0, tag) ==
    LET k  == nix_result_to_io_result(k0)
        tk == TakeTransfer(tbl, tag)
    IN  IF ~k.ok
        THEN [res |-> "Err", transfers |-> tbl, val |-> None,
              err |-> IoError(k), ioctls |-> <<ReapIoctl(wait)>>]
        ELSE IF tk.val = None
        THEN [res |-> "Err", transfers |-> tk.transfers, val |-> None,
              err |-> [errno |-> "EINVAL", kind |-> "Other"],
              ioctls |-> <<ReapIoctl(wait)>>]
        ELSE [res |-> "Ok", transfers |-> tk.transfers, val |-> tk.val,
              err |-> NoError, ioctls |-> <<ReapIoctl(wait)>>]

\* reap_main that issues its ioctl a second time when the first one failed.
ReapMainRetry(tbl, wait, k0, tag) ==
    LET k  == nix_result_to_io_result(k0)
        tk == TakeTransfer(tbl, tag)
    IN  IF ~k.ok
        THEN [res |-> "Err", transfers |-> tbl, val |-> None,
              err |-> IoError(k),
              ioctls |-> <<ReapIoctl(wait), ReapIoctl(wait)>>]
        ELSE IF tk.val = None
        THEN [res |-> "panic", transfers |-> tk.transfers, val |-> None,
              err |-> NoError, ioctls |-> <<ReapIoctl(wait)>>]
        ELSE [res |-> "Ok", transfers |-> tk.transfers, val |-> tk.val,
              err |-> NoError, ioctls |-> <<ReapIoctl(wait)>>]

\* reap_main that returns the occupant of the lowest occupied slot instead
\* of the slot the tag names.
ReapMainSlotOrder(tbl, wait, k0, tag) ==
    LET k   == nix_result_to_io_result(k0)
        occ == {i \in 1..Len(tbl) : tbl[i] # None}
        tk  == TakeTransfer(tbl, IF occ = {} THEN tag ELSE SetMin(occ) - 1)
    IN  IF ~k.ok
        THEN [res |-> "Err", transfers |-> tbl, val |-> None,
              err |-> IoError(k), ioctls |-> <<ReapIoctl(wait)>>]
        ELSE IF tk.val = None
        THEN [res |-> "panic", transfers |-> tk.transfers, val |-> None,
              err |-> NoError, ioctls |-> <<ReapIoctl(wait)>>]
        ELSE [res |-> "Ok", transfers |-> tk.transfers, val |-> tk.val,
              err |-> NoError, ioctls |-> <<ReapIoctl(wait)>>]

\* reap_main that takes the slot after the tagged one.
ReapMainOffByOne(tbl, wait, k0, tag) ==
    LET k  == nix_result_to_io_result(k0)
        tk == TakeTransfer(tbl, tag + 1)
    IN  IF ~k.ok
        THEN [res |-> "Err", transfers |-> tbl, val |-> None,
              err |-> IoError(k), ioctls |-> <<ReapIoctl(wait)>>]
        ELSE IF tk.val = None
        THEN [res |-> "panic", transfers |-> tk.transfers, val |-> None,
              err |-> NoError, ioctls |-> <<ReapIoctl(wait)>>]
        ELSE [res |-> "Ok", transfers |-> tk.transfers, val |-> tk.val,
              err |-> NoError, ioctls |-> <<ReapIoctl(wait)>>]

\* AsyncDevice::reap_main after its ioctl answered k (not blocking); tag is
\* the usercontext read through the returned URB pointer.
ReapMain(tbl, wait, k0, tag) ==
    LET k  == nix_result_to_io_result(k0)
        tk == TakeTransfer(tbl, tag)
    IN  IF ~k.ok
        THEN [res |-> "Err", transfers |-> tbl, val |-> None,
              err |-> IoError(k), ioctls |-> <<ReapIoctl(wait)>>]
        ELSE IF tk.val = None
        THEN [res |-> "panic", transfers |-> tk.transfers, val |-> None,
              err |-> NoError, ioctls |-> <<ReapIoctl(wait)>>]
        ELSE [res |-> "Ok", transfers |-> tk.transfers, val |-> tk.val,
              err |-> NoError, ioctls |-> <<ReapIoctl(wait)>>]

\* discard as its commented-out body has it: a kernel call, then the
\* transfer is taken out of its slot.
discardTake(tbl, id) ==
    LET tk == TakeTransfer(tbl, id)
    IN  [res |-> IF tk.val = None THEN "Err" ELSE "Ok",
         transfers |-> tk.transfers, val |-> tk.val,
         err |-> IF tk.val = None
                 THEN [errno |-> "none", kind |-> "Other"] ELSE NoError,
         ioctls |-> <<"DISCARDURB">>]

\* AsyncDevice::discard: panic!("not implemented") is its whole body; _id is
\* not read.
discard(tbl, id) ==
    [res |-> "panic", transfers |-> tbl, val |-> None, err |-> NoError,
     ioctls |-> <<>>]

\* ------------------------------------------------------------------ Device
\* The synchronous side: opening the device file and control requests.

\* The codes of the three enums that make up bmRequestType.
SetupDirections == {0, 128}
SetupTypes == {0, 32, 64}
SetupRecipients == {0, 1, 2, 3}

\* a | b on unsigned integers.
RECURSIVE BitOr(_, _)
BitOr(a, b) ==
    IF a = 0 THEN b
    ELSE IF b = 0 THEN a
    ELSE 2 * BitOr(a \div 2, b \div 2)
           + (IF a % 2 = 1 \/ b % 2 = 1 THEN 1 ELSE 0)

\* Formatting of an unsigned integer: "{}" writes its decimal digits, "{:03}"
\* pads them on the left with zeros to a width of at least 3.
DigitChar(d) == SubSeq("0123456789", d + 1, d + 1)

RECURSIVE FormatPlain(_)
FormatPlain(n) ==
    IF n < 10 THEN DigitChar(n)
    ELSE FormatPlain(n \div 10) \o DigitChar(n % 10)

RECURSIVE PadZero(_, _)
PadZero(s, width) == IF Len(s) >= width THEN s ELSE PadZero("0" \o s, width)

\* "{:02}": a padding to two digits only.
Format02(n) == PadZero(FormatPlain(n), 2)

Format03(n) == PadZero(FormatPlain(n), 3)

\* The three paths from_busdev formats, in the order it tries them.
DevBusUsbPath(busnum, devnum) ==
    "/dev/bus/usb/" \o Format03(busnum) \o "/" \o Format03(devnum)
DevUsbdevPath(busnum, devnum) ==
    "/dev/usbdev" \o FormatPlain(busnum) \o "." \o FormatPlain(devnum)
ProcBusUsbPath(busnum, devnum) ==
    "/proc/bus/usb/" \o Format03(busnum) \o "/" \o Format03(devnum)

\* from_busdev that tries the legacy paths first.
from_busdev_legacy_first(busnum, devnum, fs) ==
    LET p1 == DevUsbdevPath(busnum, devnum)
        p2 == ProcBusUsbPath(busnum, devnum)
        p3 == DevBusUsbPath(busnum, devnum)
    IN  IF fs[p1] = "ok"
        THEN [res |-> "Ok", file |-> p1, opens |-> <<p1>>, err |-> "none"]
        ELSE IF fs[p2] = "ok"
        THEN [res |-> "Ok", file |-> p2, opens |-> <<p1, p2>>, err |-> "none"]
        ELSE IF fs[p3] = "ok"
        THEN [res |-> "Ok", file |-> p3, opens |-> <<p1, p2, p3>>,
              err |-> "none"]
        ELSE [res |-> "Err", file |-> "", opens |-> <<p1, p2, p3>>,
              err |-> fs[p3]]

\* Device::from_busdev.  fs tells for each path what open(read + write)
\* answers: "ok" or an errno.  Yields the result, the file opened, the paths
\* open was called on, in order, and the error returned.
from_busdev(busnum, devnum, fs) ==
    LET p1 == DevBusUsbPath(busnum, devnum)
        p2 == DevUsbdevPath(busnum, devnum)
        p3 == ProcBusUsbPath(busnum, devnum)
    IN  IF fs[p1] = "ok"
        THEN [res |-> "Ok", file |-> p1, opens |-> <<p1>>, err |-> "none"]
        ELSE IF fs[p2] = "ok"
        THEN [res |-> "Ok", file |-> p2, opens |-> <<p1, p2>>, err |-> "none"]
        ELSE IF fs[p3] = "ok"
        THEN [res |-> "Ok", file |-> p3, opens |-> <<p1, p2, p3>>,
              err |-> "none"]
        ELSE [res |-> "Err", file |-> "", opens |-> <<p1, p2, p3>>,
              err |-> fs[p3]]

\* Option<&mut [u8]>: None, or a slice given by its address and length.
NoData == [some |-> FALSE, addr |-> NullPtr, len |-> 0]
SomeData(addr, len) == [some |-> TRUE, addr |-> addr, len |-> len]

\* A CtrlTransfer whose request type leaves out the recipient.
CtrlTransferNoRecipient(direction, stype, recipient, bRequest, wValue, wIndex, odata, timeout_ms) ==
    [bmRequestType |-> BitOr(direction, stype),
     bRequest |-> bRequest, wValue |-> wValue, wIndex |-> wIndex,
     wLength |-> IF odata.some THEN odata.len % (U16_MAX + 1) ELSE 0,
     timeout |-> timeout_ms,
     data |-> IF odata.some THEN odata.addr ELSE NullPtr]

\* The devfs::CtrlTransfer that Device::control_transfer hands to the kernel.
CtrlTransferNew(direction, stype, recipient, bRequest, wValue, wIndex, odata, timeout_ms) ==
    [bmRequestType |-> BitOr(BitOr(direction, stype), recipient),
     bRequest |-> bRequest, wValue |-> wValue, wIndex |-> wIndex,
     wLength |-> IF odata.some THEN odata.len % (U16_MAX + 1) ELSE 0,
     timeout |-> timeout_ms,
     data |-> IF odata.some THEN odata.addr ELSE NullPtr]

\* The record of a call on the synchronous side: the operation, its
\* arguments, the request the kernel was handed, the paths opened, the
\* result and the error.
NoDevCall ==
    [op |-> "none", args |-> <<>>, req |-> <<>>, opens |-> <<>>,
     file |-> "", res |-> "none", val |-> 0, err |-> "none"]

\* No Device yet: from_busdev has not returned one.
NoDevice == [open |-> FALSE, call |-> NoDevCall]

\* -------------------------------------------------------------- byte order
\* A u16 field is modelled by its value as the host reads it.  On a
\* big-endian host to_le and from_le swap the two bytes, on a little-endian
\* host they are the identity; a u8 is never changed.
Hosts == {"little", "big"}

swap_bytes(v) == (v % 256) * 256 + (v \div 256)

\* from_le that never swaps.
from_le_identity(host, v, bits) == v

to_le(host, v, bits) ==
    IF host = "little" \/ bits = 8 THEN v ELSE swap_bytes(v)

from_le(host, v, bits) ==
    IF host = "little" \/ bits = 8 THEN v ELSE swap_bytes(v)

\* The two bytes a u16 of value v occupies in the host's memory, lowest
\* address first.
MemBytes(host, v) ==
    IF host = "little" THEN << v % 256, v \div 256 >>
    ELSE << v \div 256, v % 256 >>

\* From<Setup<NativeEndian>> for Setup<BusEndian>
SetupIntoBus(host, f) ==
    [bmRequestType |-> to_le(host, f.bmRequestType, 8),
     bRequest |-> to_le(host, f.bRequest, 8),
     wValue |-> to_le(host, f.wValue, 16),
     wIndex |-> to_le(host, f.wIndex, 16),
     wLength |-> to_le(host, f.wLength, 16)]

\* The way back, field by field with from_le, as the descriptor conversion
\* From<DeviceDescriptor<BusEndian>> does it.
SetupIntoNative(host, f) ==
    [bmRequestType |-> from_le(host, f.bmRequestType, 8),
     bRequest |-> from_le(host, f.bRequest, 8),
     wValue |-> from_le(host, f.wValue, 16),
     wIndex |-> from_le(host, f.wIndex, 16),
     wLength |-> from_le(host, f.wLength, 16)]

NoConv ==
    [host |-> "little", stage |-> "none", native |-> NoSetup,
     bus |-> NoSetup, back |-> NoSetup]

\* ------------------------------------------------------------------- state

VARIABLES
    transfers,   \* AsyncDevice.transfers: the slot table
    xfer,        \* contents of each transfer object (URB, descriptors, buffer)
    owner,       \* who holds each transfer object: "caller", "engine", "dropped"
    pc,          \* the calling thread: "idle", "reap_wait" / "reap_nowait"
                 \* (asleep in that call's ioctl) or "panicked"
    kpending,    \* kernel: URBs accepted and not yet completed
    kdone,       \* kernel: completed URBs in completion order, not yet reaped
    gone,        \* kernel: the device is disconnected
    last,        \* the engine call made by the last step and what it returned
    nSubmitted,  \* history: submissions the kernel accepted so far
    outstanding, \* history: per transfer, accepted submissions minus
                 \* successful reaps that returned it
    slotOf,      \* history: the slot a successful submit returned, while the
                 \* transfer is not yet reaped
    nStale,      \* history: URB addresses a faulty kernel delivered again
    handle,      \* the handle type R each transfer is held by: "box" (Box<T>,
                 \* &mut T: the target is behind a pointer) or "inline" (a
                 \* DerefMut type that stores its target in itself)
    dev,         \* the synchronous Device: whether the caller holds an open
                 \* one, and the record of the last call made
    conv,        \* a Setup being converted between byte orders: the host's
                 \* endianness, the native Setup, its bus-endian form and
                 \* the native form converted back
    peak         \* history: the largest number of slots occupied at the same
                 \* time so far, the slot a submit call fills while it runs
                 \* included

vars == << transfers, xfer, owner, pc, kpending, kdone, gone, last,
           nSubmitted, outstanding, slotOf, nStale, handle, dev, conv, peak >>

\* Addresses.  HeapAddr(x) is the heap allocation that holds transfer object
\* x when it is boxed.  A handle itself sits in a place: the parameter
\* `transfer` of submit_give_back_on_fail (ParamPlace), or element i of the
\* slot table's storage, which the Vec may reallocate when it grows to
\* length n (SlotPlace).
HeapAddr(x) == 1000 * x
ParamPlace == 1
SlotPlace(i, n) == 10 * n + i

\* A DerefMut whose target always lives in the handle itself.
deref_mut_inline(h, x, place) == place

\* R::deref_mut for the handle of kind h that sits at place: the address of
\* the transfer object, and so of its URB.
deref_mut(h, x, place) ==
    IF h = "box" THEN HeapAddr(x) ELSE place

\* urbp, taken from the parameter before insert_transfer moved the handle
\* into the table, still points at the transfer's URB afterwards.
UrbpLive(x) == deref_mut(handle[x], x, ParamPlace) = HeapAddr(x)

\* The buffers a caller gives its transfers.  Control buffers may be too
\* short for the setup packet, exactly 8 bytes, or carry a payload.
BufLens(kind) ==
    CASE kind \in {"control", "std_control"} ->
             {SETUP_LEN - 1, SETUP_LEN, SETUP_LEN + MaxPayload}
      [] kind = "bulk"    -> {0, MaxPayload}
      [] OTHER            -> {0, MaxPayload + 1}

\* Every caller buffer starts filled with the byte 0xAA.
BufAddr(x, len) == 100 * x + len
CallerBuf(x, len) == Buffer(BufAddr(x, len), len, 170)

Kinds == {"control", "bulk", "iso"}

KindOf(x) ==
    CASE x % 3 = 1 -> "control"
      [] x % 3 = 2 -> "iso"
      [] OTHER     -> "bulk"

\* The transfer objects the caller constructs (as usbfs_demo / stream_test
\* do): a vendor IN control request, a bulk transfer, an isochronous one.
NewTransfer(x, kind) ==
    CASE kind = "control" ->
             ControlTransferMutNew(128, 64, 1, 3, 0, 0,
                                   CallerBuf(x, SETUP_LEN + MaxPayload))
      [] kind = "bulk" -> BulkTransferMutNew(CallerBuf(x, MaxPayload))
      [] kind = "std_iso" ->
             StdBufTransferIsochronous(CallerBuf(x, MaxPayload + 1))
      [] OTHER -> IsoBufTransferNew(MaxPayload, CallerBuf(x, MaxPayload + 1))

\* The record of an engine call: the operation, its argument (the transfer
\* handed to submit), how it ended (res), the transfer it returned, the slot
\* it returned, its error, the ioctls it issued and the tag it read.
NoCall ==
    [op |-> "none", res |-> "none", arg |-> None, xfer |-> None, slot |-> {},
     err |-> NoError, ioctls |-> <<>>, tag |-> {}]

\* AsyncDevice::from(device): an empty slot table.
Init ==
    /\ transfers = <<>>
    /\ xfer = [x \in Xfers |-> NewTransfer(x, KindOf(x))]
    /\ owner = [x \in Xfers |-> "caller"]
    /\ pc = "idle"
    /\ kpending = {}
    /\ kdone = <<>>
    /\ gone = FALSE
    /\ last = NoCall
    /\ nSubmitted = 0
    /\ outstanding = [x \in Xfers |-> 0]
    /\ slotOf = [x \in Xfers |-> {}]
    /\ nStale = 0
    /\ peak = 0
    /\ handle = [x \in Xfers |-> "box"]
    /\ dev = NoDevice
    /\ conv = NoConv

\* Completion statuses the kernel reports: success or a negative errno.
KernelStatuses == {0, -71}

\* ----------------------------------------------------------------- actions

\* The state change of one submit call whose outcome is r.
SubmitEffect(op, x, r) ==
    /\ transfers' = r.transfers
    /\ xfer' = [xfer EXCEPT ![x] =
                  IF UrbpLive(x) THEN r.t
                  ELSE [r.t EXCEPT !.urb.usercontext = xfer[x].urb.usercontext]]
    /\ owner' = [y \in Xfers |->
                   IF y \in r.dropped THEN "dropped"
                   ELSE IF y = r.back THEN "caller"
                   ELSE IF y = x THEN "engine"
                   ELSE owner[y]]
    /\ pc' = IF r.res = "panic" THEN "panicked" ELSE "idle"
    /\ kpending' = IF r.res = "Ok"
                   THEN kpending \cup
                          {[urbp |-> x, urb |-> r.t.urb,
                            addr |-> deref_mut(handle[x], x, ParamPlace)]}
                   ELSE kpending
    /\ last' = [op |-> op, res |-> r.res, arg |-> x, xfer |-> r.back,
                slot |-> r.slot, err |-> r.err, ioctls |-> r.ioctls,
                tag |-> {}]
    /\ nSubmitted' = IF r.res = "Ok" THEN nSubmitted + 1 ELSE nSubmitted
    /\ outstanding' = IF r.res = "Ok"
                      THEN [outstanding EXCEPT ![x] = @ + 1] ELSE outstanding
    /\ slotOf' = IF r.res = "Ok" THEN [slotOf EXCEPT ![x] = r.slot] ELSE slotOf
    /\ peak' = IF r.ioctls = <<>> THEN peak
               ELSE Max(peak, Cardinality(Occupied(
                                  InsertTransfer(transfers, x).transfers)))
    /\ UNCHANGED << kdone, gone, nStale, handle, dev, conv >>

\* The caller hands transfer x to submit_give_back_on_fail.
SubmitGiveBack(x) ==
    /\ pc = "idle"
    /\ owner[x] = "caller"
    /\ nSubmitted < MaxAccepts
    /\ \E accept \in BOOLEAN :
         SubmitEffect("submit_give_back_on_fail", x,
                      SubmitGiveBackOnFail(transfers, x, xfer[x], accept, gone))

\* The caller hands transfer x to submit.
Submit(x) ==
    /\ pc = "idle"
    /\ owner[x] = "caller"
    /\ nSubmitted < MaxAccepts
    /\ \E accept \in BOOLEAN :
         SubmitEffect("submit", x,
                      SubmitDrop(transfers, x, xfer[x], accept, gone))

OpName(wait) == IF wait THEN "reap_wait" ELSE "reap_nowait"

\* The usercontext reap_main can read through the URB pointer the kernel
\* returned: the URB's tag, or anything (a slot index or one past the table)
\* when the transfer object was dropped and the pointer dangles.
ReadTags(k) ==
    IF ~k.ok THEN {0}
    ELSE IF owner[k.urbp] = "dropped" \/ ~UrbpLive(k.urbp)
    THEN 0..Len(transfers)
    ELSE {xfer[k.urbp].urb.usercontext}

\* A reap call that looks at the completion status and turns a negative one
\* into an error of the call.
ReapEffectStatusChecked(wait, k, tag) ==
    IF k.block
    THEN /\ pc' = OpName(wait)
         /\ last' = NoCall
         /\ UNCHANGED << transfers, xfer, owner, kpending, kdone, gone,
                         nSubmitted, outstanding, slotOf, nStale, handle, dev, conv, peak >>
    ELSE LET r0 == ReapMain(transfers, wait, k, tag)
             r  == IF k.ok /\ r0.res = "Ok" /\ Head(kdone).status < 0
                   THEN [r0 EXCEPT !.res = "Err", !.val = None,
                                   !.err = [errno |-> "EPROTO", kind |-> "Other"]]
                   ELSE r0
         IN  /\ transfers' = r.transfers
             /\ xfer' = IF k.ok /\ UrbpLive(k.urbp)
                        THEN [xfer EXCEPT ![k.urbp] =
                                 KernelWriteBack(@, Head(kdone).status)]
                        ELSE xfer
             /\ kdone' = IF k.ok THEN Tail(kdone) ELSE kdone
             /\ owner' = IF r.res = "Ok"
                         THEN [owner EXCEPT ![r.val] = "caller"]
                         ELSE IF r0.res = "Ok"
                         THEN [owner EXCEPT ![r0.val] = "dropped"] ELSE owner
             /\ pc' = IF r.res = "panic" THEN "panicked" ELSE "idle"
             /\ last' = [op |-> OpName(wait), res |-> r.res, arg |-> None,
                         xfer |-> r.val, slot |-> {}, err |-> r.err,
                         ioctls |-> r.ioctls,
                         tag |-> IF k.ok THEN {tag} ELSE {}]
             /\ outstanding' = IF r0.res = "Ok"
                               THEN [outstanding EXCEPT ![r0.val] = @ - 1]
                               ELSE outstanding
             /\ slotOf' = IF r0.res = "Ok"
                          THEN [slotOf EXCEPT ![r0.val] = {}] ELSE slotOf
             /\ UNCHANGED << kpending, gone, nSubmitted, nStale, handle, dev, conv, peak >>

\* The state change of a reap call whose ioctl answered k and which read
\* tag.
ReapEffect(wait, k, tag) ==
    IF k.block
    THEN /\ pc' = OpName(wait)
         /\ last' = NoCall
         /\ UNCHANGED << transfers, xfer, owner, kpending, kdone, gone,
                         nSubmitted, outstanding, slotOf, nStale, handle, dev, conv, peak >>
    ELSE LET r == ReapMain(transfers, wait, k, tag)
         IN  /\ transfers' = r.transfers
             /\ xfer' = IF k.ok /\ UrbpLive(k.urbp)
                        THEN [xfer EXCEPT ![k.urbp] =
                                 KernelWriteBack(@, Head(kdone).status)]
                        ELSE xfer
             /\ kdone' = IF k.ok THEN Tail(kdone) ELSE kdone
             /\ owner' = IF r.res = "Ok"
                         THEN [owner EXCEPT ![r.val] = "caller"] ELSE owner
             /\ pc' = IF r.res = "panic" THEN "panicked" ELSE "idle"
             /\ last' = [op |-> OpName(wait), res |-> r.res, arg |-> None,
                         xfer |-> r.val, slot |-> {}, err |-> r.err,
                         ioctls |-> r.ioctls,
                         tag |-> IF k.ok THEN {tag} ELSE {}]
             /\ outstanding' = IF r.res = "Ok"
                               THEN [outstanding EXCEPT ![r.val] = @ - 1]
                               ELSE outstanding
             /\ slotOf' = IF r.res = "Ok"
                          THEN [slotOf EXCEPT ![r.val] = {}] ELSE slotOf
             /\ UNCHANGED << kpending, gone, nSubmitted, nStale, handle, dev, conv, peak >>

\* The caller calls reap_nowait.
ReapNowait ==
    /\ pc = "idle"
    /\ LET k == ReapAnswer(ReapIoctl(FALSE), kdone, gone, FALSE)
       IN  \E tag \in ReadTags(k) : ReapEffect(FALSE, k, tag)

\* The caller calls reap_wait; the ioctl answers at once or puts it to sleep.
ReapWait ==
    /\ pc = "idle"
    /\ LET k == ReapAnswer(ReapIoctl(TRUE), kdone, gone, FALSE)
       IN  \E tag \in ReadTags(k) : ReapEffect(TRUE, k, tag)

\* A caller asleep in a reap ioctl is woken: by a completion, a disconnect
\* or a signal.
ReapWake ==
    /\ pc \in {"reap_wait", "reap_nowait"}
    /\ \E sig \in BOOLEAN :
         LET wait == (pc = "reap_wait")
             k    == ReapAnswer(ReapIoctl(wait), kdone, gone, sig)
         IN  /\ ~k.block
             /\ \E tag \in ReadTags(k) : ReapEffect(wait, k, tag)

\* The kernel completes a pending URB with some status.
KernelComplete ==
    /\ pc # "panicked"
    /\ \E u \in kpending, status \in KernelStatuses :
         /\ kpending' = kpending \ {u}
         /\ kdone' = Append(kdone, [urbp |-> u.urbp, status |-> status])
    /\ last' = NoCall
    /\ UNCHANGED << transfers, xfer, owner, pc, gone,
                    nSubmitted, outstanding, slotOf, nStale, handle, dev, conv, peak >>

\* The device is unplugged.
Disconnect ==
    /\ pc # "panicked"
    /\ ~gone
    /\ gone' = TRUE
    /\ last' = NoCall
    /\ UNCHANGED << transfers, xfer, owner, pc, kpending, kdone,
                    nSubmitted, outstanding, slotOf, nStale, handle, dev, conv, peak >>

\* The caller, holding transfer x, replaces its public buffer.
ReplaceBuf(x) ==
    /\ pc = "idle"
    /\ owner[x] = "caller"
    /\ \E len \in BufLens(xfer[x].kind) :
         /\ len # Len(xfer[x].buf.bytes)
         /\ xfer' = [xfer EXCEPT ![x].buf = CallerBuf(x, len)]
    /\ last' = NoCall
    /\ UNCHANGED << transfers, owner, pc, kpending, kdone, gone,
                    nSubmitted, outstanding, slotOf, nStale, handle, dev, conv, peak >>

\* The caller calls discard with a slot number: one of the table or the
\* first one past it.
Discard ==
    /\ pc = "idle"
    /\ \E id \in 0..Len(transfers) :
         LET r == discard(transfers, id)
         IN  /\ transfers' = r.transfers
             /\ owner' = IF r.res = "Ok"
                         THEN [owner EXCEPT ![r.val] = "caller"] ELSE owner
             /\ pc' = IF r.res = "panic" THEN "panicked" ELSE "idle"
             /\ last' = [op |-> "discard", res |-> r.res, arg |-> None,
                         xfer |-> r.val, slot |-> {}, err |-> r.err,
                         ioctls |-> r.ioctls, tag |-> {}]
    /\ UNCHANGED << xfer, kpending, kdone, gone,
                    nSubmitted, outstanding, slotOf, nStale, handle, dev, conv, peak >>

Next ==
    \/ \E x \in Xfers : SubmitGiveBack(x)
    \/ ReapNowait
    \/ ReapWait
    \/ ReapWake
    \/ KernelComplete
    \/ Disconnect

Spec == Init /\ [][Next]_vars

\* One transfer object of any kind, whose buffer the caller replaces between
\* submissions and which it may also hand to submit, which drops it on
\* failure.
InitWire ==
    /\ \E y \in Xfers :
         owner = [x \in Xfers |-> IF x = y THEN "caller" ELSE "dropped"]
    /\ \E kind \in Kinds : xfer = [x \in Xfers |-> NewTransfer(x, kind)]
    /\ transfers = <<>>
    /\ pc = "idle"
    /\ kpending = {}
    /\ kdone = <<>>
    /\ gone = FALSE
    /\ last = NoCall
    /\ nSubmitted = 0
    /\ outstanding = [x \in Xfers |-> 0]
    /\ slotOf = [x \in Xfers |-> {}]
    /\ nStale = 0
    /\ peak = 0
    /\ handle = [x \in Xfers |-> "box"]
    /\ dev = NoDevice
    /\ conv = NoConv

NextWire ==
    \/ Next
    \/ \E x \in Xfers : Submit(x)
    \/ \E x \in Xfers : ReplaceBuf(x)

SpecWire == InitWire /\ [][NextWire]_vars

\* A kernel that breaks its contract, seen with one transfer object: it
\* delivers again the address of a URB it was handed before, whatever became
\* of that transfer since (reaped, resubmitted, handed back, dropped).
KernelRedeliver ==
    /\ pc # "panicked"
    /\ nStale < MaxStale
    /\ \E x \in Xfers :
         /\ xfer[x].urb.buffer # NullPtr
         /\ kdone' = Append(kdone, [urbp |-> x, status |-> 0])
    /\ nStale' = nStale + 1
    /\ last' = NoCall
    /\ UNCHANGED << transfers, xfer, owner, pc, kpending, gone,
                    nSubmitted, outstanding, slotOf, handle, dev, conv, peak >>

NextStale ==
    \/ Next
    \/ \E x \in Xfers : Submit(x)
    \/ KernelRedeliver

SpecStale == InitWire /\ [][NextStale]_vars

\* The engine used with either kind of handle its type bound (R: DerefMut)
\* admits.
InitHandles ==
    /\ \E h \in {"box", "inline"} : handle = [x \in Xfers |-> h]
    /\ dev = NoDevice
    /\ conv = NoConv
    /\ transfers = <<>>
    /\ xfer = [x \in Xfers |-> NewTransfer(x, KindOf(x))]
    /\ owner = [x \in Xfers |-> "caller"]
    /\ pc = "idle"
    /\ kpending = {}
    /\ kdone = <<>>
    /\ gone = FALSE
    /\ last = NoCall
    /\ nSubmitted = 0
    /\ outstanding = [x \in Xfers |-> 0]
    /\ slotOf = [x \in Xfers |-> {}]
    /\ nStale = 0
    /\ peak = 0

SpecHandles == InitHandles /\ [][Next]_vars

\* The caller calls wire_urb on a transfer it holds (Transfer::wire_urb is a
\* public trait method).
CallWireUrb(x) ==
    /\ pc = "idle"
    /\ owner[x] = "caller"
    /\ LET w == WireUrb(xfer[x])
       IN  /\ xfer' = [xfer EXCEPT ![x] = w.t]
           /\ pc' = IF w.panic THEN "panicked" ELSE "idle"
           /\ last' = [NoCall EXCEPT !.op = "wire_urb", !.arg = x,
                                     !.res = IF w.panic THEN "panic" ELSE "Ok"]
    /\ UNCHANGED << transfers, owner, kpending, kdone, gone,
                    nSubmitted, outstanding, slotOf, nStale, handle, dev, conv, peak >>

NextWireUrb ==
    \/ \E x \in Xfers : CallWireUrb(x)
    \/ \E x \in Xfers : ReplaceBuf(x)

\* Buffer lengths and packet capacities of the isochronous transfers wire_urb
\* is applied to: every small length, which the 32 descriptors cannot cover
\* at the small capacities, and the sizes of a streaming frame buffer.
IsoLens == (0..MaxIsoLen) \cup {100, 2304}
IsoCaps == (1..MaxIsoCap) \cup {256}

\* One isochronous transfer of any of these sizes, in the caller's hands.
InitIso ==
    /\ \E len \in IsoLens, plen \in IsoCaps :
         xfer = [x \in Xfers |-> IsoBufTransferNew(plen, CallerBuf(x, len))]
    /\ owner = [x \in Xfers |-> IF x = 1 THEN "caller" ELSE "dropped"]
    /\ transfers = <<>>
    /\ pc = "idle"
    /\ kpending = {}
    /\ kdone = <<>>
    /\ gone = FALSE
    /\ last = NoCall
    /\ nSubmitted = 0
    /\ outstanding = [x \in Xfers |-> 0]
    /\ slotOf = [x \in Xfers |-> {}]
    /\ nStale = 0
    /\ peak = 0
    /\ handle = [x \in Xfers |-> "box"]
    /\ dev = NoDevice
    /\ conv = NoConv

SpecIso == InitIso /\ [][NextWireUrb]_vars

\* One isochronous transfer of either type, IsoBufTransfer or StdBufTransfer,
\* cycled through submit, completion, reap and resubmission.
IsoKinds == {"iso", "std_iso"}

InitIsoCycle ==
    /\ \E y \in Xfers :
         owner = [x \in Xfers |-> IF x = y THEN "caller" ELSE "dropped"]
    /\ \E kind \in IsoKinds : xfer = [x \in Xfers |-> NewTransfer(x, kind)]
    /\ transfers = <<>>
    /\ pc = "idle"
    /\ kpending = {}
    /\ kdone = <<>>
    /\ gone = FALSE
    /\ last = NoCall
    /\ nSubmitted = 0
    /\ outstanding = [x \in Xfers |-> 0]
    /\ slotOf = [x \in Xfers |-> {}]
    /\ nStale = 0
    /\ peak = 0
    /\ handle = [x \in Xfers |-> "box"]
    /\ dev = NoDevice
    /\ conv = NoConv

SpecIsoCycle == InitIsoCycle /\ [][NextWire]_vars

\* Control transfers wire_urb is applied to.  The setup fields cover both
\* directions, two request types and recipients, and values whose two bytes
\* differ; the buffers carry a payload of 0..MaxCtlPayload bytes or of 16.
\* One request is also given the largest payload a u16 can count, and one
\* byte more.
CtlLens == (SETUP_LEN..(SETUP_LEN + MaxCtlPayload)) \cup {24}
CtlBigLens == {SETUP_LEN + U16_MAX, SETUP_LEN + U16_MAX + 1}

InitControl ==
    /\ \/ \E len \in CtlLens, direction \in {0, 128}, stype \in {0, 64},
             recipient \in {0, 1}, value \in {0, 258, U16_MAX},
             index \in {0, 513} :
             xfer = [x \in Xfers |->
                       ControlTransferMutNew(direction, stype, recipient, 3,
                                             value, index, CallerBuf(x, len))]
       \/ \E len \in CtlBigLens :
             xfer = [x \in Xfers |->
                       ControlTransferMutNew(128, 64, 1, 3, 258, 513,
                                             CallerBuf(x, len))]
    /\ owner = [x \in Xfers |-> IF x = 1 THEN "caller" ELSE "dropped"]
    /\ transfers = <<>>
    /\ pc = "idle"
    /\ kpending = {}
    /\ kdone = <<>>
    /\ gone = FALSE
    /\ last = NoCall
    /\ nSubmitted = 0
    /\ outstanding = [x \in Xfers |-> 0]
    /\ slotOf = [x \in Xfers |-> {}]
    /\ nStale = 0
    /\ peak = 0
    /\ handle = [x \in Xfers |-> "box"]
    /\ dev = NoDevice
    /\ conv = NoConv

SpecControl == InitControl /\ [][NextWireUrb]_vars

\* The engine with discard among the calls the caller makes.
NextDiscard ==
    \/ Next
    \/ Discard

SpecDiscard == Init /\ [][NextDiscard]_vars

\* Bus and device numbers the caller opens (1 to 4 digits), the answers
\* open() gives, and the arguments of its control requests: no buffer, an
\* empty one, one of up to MaxDataLen bytes, one of 16 bytes, and the two
\* around the largest length a u16 can hold.
Busnums == {1, 12, 1000}
Devnums == {2, 127}
OpenAnswers == {"ok", "ENOENT", "EACCES"}
DataAddr == 7000
DataArgs ==
    {NoData} \cup {SomeData(DataAddr, n) :
                     n \in (0..MaxDataLen) \cup {16, U16_MAX, U16_MAX + 1}}
Values == {<< 0, 0 >>, << 258, 513 >>}

\* The caller opens the device with Device::from_busdev.
FromBusdev ==
    /\ pc = "idle"
    /\ ~dev.open
    /\ \E busnum \in Busnums, devnum \in Devnums :
         \E fs \in [{DevBusUsbPath(busnum, devnum),
                     DevUsbdevPath(busnum, devnum),
                     ProcBusUsbPath(busnum, devnum)} -> OpenAnswers] :
           LET r == from_busdev(busnum, devnum, fs)
           IN  dev' = [open |-> r.res = "Ok",
                       call |-> [op |-> "from_busdev",
                                 args |-> <<busnum, devnum, fs>>,
                                 req |-> <<>>, opens |-> r.opens,
                                 file |-> r.file, res |-> r.res, val |-> 0,
                                 err |-> r.err]]
    /\ last' = NoCall
    /\ UNCHANGED << transfers, xfer, owner, pc, kpending, kdone, gone,
                    nSubmitted, outstanding, slotOf, nStale, handle, conv, peak >>

\* One control ioctl on the open device with request req, which the kernel
\* answers with a byte count or an errno.
ControlIoctl(op, args, req) ==
    /\ \E k0 \in {[ok |-> TRUE, n |-> req.wLength],
                  [ok |-> FALSE, errno |-> "EPIPE"]} :
         LET k == nix_result_to_io_result(k0)
         IN  dev' = [dev EXCEPT !.call =
                       [op |-> op, args |-> args, req |-> req,
                        opens |-> <<>>, file |-> "",
                        res |-> IF k.ok THEN "Ok" ELSE "Err",
                        val |-> IF k.ok THEN k.n ELSE 0,
                        err |-> IF k.ok THEN "none" ELSE k.errno]]
    /\ last' = NoCall
    /\ UNCHANGED << transfers, xfer, owner, pc, kpending, kdone, gone,
                    nSubmitted, outstanding, slotOf, nStale, handle, conv, peak >>

\* The caller calls Device::control_transfer.
ControlTransfer ==
    /\ pc = "idle"
    /\ dev.open
    /\ \E direction \in SetupDirections, stype \in SetupTypes,
          recipient \in SetupRecipients, v \in Values,
          odata \in {NoData, SomeData(DataAddr, 16)} :
         ControlIoctl("control_transfer",
                      <<direction, stype, recipient, 3, v[1], v[2], odata>>,
                      CtrlTransferNew(direction, stype, recipient, 3, v[1],
                                      v[2], odata, 1000))

\* The caller calls Device::control_transfer_in.
ControlTransferIn ==
    /\ pc = "idle"
    /\ dev.open
    /\ \E stype \in SetupTypes, recipient \in SetupRecipients,
          odata \in DataArgs :
         ControlIoctl("control_transfer_in",
                      <<128, stype, recipient, 3, 258, 513, odata>>,
                      CtrlTransferNew(128, stype, recipient, 3, 258, 513,
                                      odata, 1000))

\* The caller calls Device::control_transfer_out.
ControlTransferOut ==
    /\ pc = "idle"
    /\ dev.open
    /\ \E stype \in SetupTypes, recipient \in SetupRecipients,
          odata \in DataArgs :
         ControlIoctl("control_transfer_out",
                      <<0, stype, recipient, 3, 258, 513, odata>>,
                      CtrlTransferNew(0, stype, recipient, 3, 258, 513,
                                      odata, 1000))

NextDevice ==
    \/ FromBusdev
    \/ ControlTransfer
    \/ ControlTransferIn
    \/ ControlTransferOut

SpecDevice == Init /\ [][NextDevice]_vars

\* Native-endian Setups of every request type, with 16-bit fields whose two
\* bytes are equal, differ, or are both 0xFF, on a host of either endianness.
SetupWords == {0, 258, 4660, U16_MAX}

InitEndian ==
    /\ \E host \in Hosts, direction \in SetupDirections, stype \in SetupTypes,
          recipient \in SetupRecipients, value \in SetupWords,
          length \in {0, 16, 258} :
         conv = [NoConv EXCEPT
                   !.host = host, !.stage = "native",
                   !.native = SetupNew(direction, stype, recipient, 3,
                                       value, 513, length)]
    /\ dev = NoDevice
    /\ transfers = <<>>
    /\ xfer = [x \in Xfers |-> NewTransfer(x, KindOf(x))]
    /\ owner = [x \in Xfers |-> "caller"]
    /\ pc = "idle"
    /\ kpending = {}
    /\ kdone = <<>>
    /\ gone = FALSE
    /\ last = NoCall
    /\ nSubmitted = 0
    /\ outstanding = [x \in Xfers |-> 0]
    /\ slotOf = [x \in Xfers |-> {}]
    /\ nStale = 0
    /\ peak = 0
    /\ handle = [x \in Xfers |-> "box"]

\* The native Setup is converted into a Setup<BusEndian>.
IntoBus ==
    /\ conv.stage = "native"
    /\ conv' = [conv EXCEPT !.stage = "bus",
                            !.bus = SetupIntoBus(conv.host, conv.native)]
    /\ last' = NoCall
    /\ UNCHANGED << transfers, xfer, owner, pc, kpending, kdone, gone,
                    nSubmitted, outstanding, slotOf, nStale, handle, dev, peak >>

\* The bus-endian Setup is converted back field by field.
IntoNative ==
    /\ conv.stage = "bus"
    /\ conv' = [conv EXCEPT !.stage = "back",
                            !.back = SetupIntoNative(conv.host, conv.bus)]
    /\ last' = NoCall
    /\ UNCHANGED << transfers, xfer, owner, pc, kpending, kdone, gone,
                    nSubmitted, outstanding, slotOf, nStale, handle, dev, peak >>

NextEndian ==
    \/ IntoBus
    \/ IntoNative

SpecEndian == InitEndian /\ [][NextEndian]_vars

\* A StdBufTransfer control transfer in the caller's hands, which wires it
\* and between wirings replaces or resizes its public buffer.
InitStdControl ==
    /\ \E len \in {SETUP_LEN, SETUP_LEN + MaxPayload, 24},
          direction \in SetupDirections, value \in SetupWords :
         xfer = [x \in Xfers |->
                   StdBufTransferControl(direction, 64, 1, 3, value, 513,
                                         CallerBuf(x, len))]
    /\ owner = [x \in Xfers |-> IF x = 1 THEN "caller" ELSE "dropped"]
    /\ transfers = <<>>
    /\ pc = "idle"
    /\ kpending = {}
    /\ kdone = <<>>
    /\ gone = FALSE
    /\ last = NoCall
    /\ nSubmitted = 0
    /\ outstanding = [x \in Xfers |-> 0]
    /\ slotOf = [x \in Xfers |-> {}]
    /\ nStale = 0
    /\ peak = 0
    /\ handle = [x \in Xfers |-> "box"]
    /\ dev = NoDevice
    /\ conv = NoConv

\* The caller, holding transfer x, resizes its buffer (Vec::resize): the
\* bytes it has are kept up to the new length, new bytes are zero.
ResizeBuf(x) ==
    /\ pc = "idle"
    /\ owner[x] = "caller"
    /\ \E len \in BufLens(xfer[x].kind) :
         /\ len # Len(xfer[x].buf.bytes)
         /\ xfer' = [xfer EXCEPT ![x].buf =
                       [addr |-> BufAddr(x, len),
                        bytes |-> [i \in 1..len |->
                                     IF i <= Len(xfer[x].buf.bytes)
                                     THEN xfer[x].buf.bytes[i] ELSE 0]]]
    /\ last' = NoCall
    /\ UNCHANGED << transfers, owner, pc, kpending, kdone, gone,
                    nSubmitted, outstanding, slotOf, nStale, handle, dev,
                    conv, peak >>

NextStdControl ==
    \/ \E x \in Xfers : CallWireUrb(x)
    \/ \E x \in Xfers : ReplaceBuf(x)
    \/ \E x \in Xfers : ResizeBuf(x)

SpecStdControl == InitStdControl /\ [][NextStdControl]_vars

\* One IsoBufTransfer whose buffer is empty, small, exactly what the 32
\* descriptors cover, or one packet more, cycled through wiring, submission,
\* completion and reap, with status() read whenever the caller holds it.
IsoStatusLens ==
    {0, MaxPayload + 1, MaxPayload * MAX_ISO_PACKETS,
     MaxPayload * (MAX_ISO_PACKETS + 1)}

InitIsoStatus ==
    /\ \E len \in IsoStatusLens :
         xfer = [x \in Xfers |->
                   IsoBufTransferNew(MaxPayload, CallerBuf(x, len))]
    /\ owner = [x \in Xfers |-> IF x = 1 THEN "caller" ELSE "dropped"]
    /\ transfers = <<>>
    /\ pc = "idle"
    /\ kpending = {}
    /\ kdone = <<>>
    /\ gone = FALSE
    /\ last = NoCall
    /\ nSubmitted = 0
    /\ outstanding = [x \in Xfers |-> 0]
    /\ slotOf = [x \in Xfers |-> {}]
    /\ nStale = 0
    /\ peak = 0
    /\ handle = [x \in Xfers |-> "box"]
    /\ dev = NoDevice
    /\ conv = NoConv

\* The caller calls status() on a transfer it holds.
CallStatus(x) ==
    /\ pc = "idle"
    /\ owner[x] = "caller"
    /\ LET s == IsoBufTransferStatus(xfer[x])
       IN  /\ pc' = IF s.panic THEN "panicked" ELSE "idle"
           /\ last' = [NoCall EXCEPT !.op = "status", !.arg = x,
                                     !.res = IF s.panic THEN "panic" ELSE "Ok"]
    /\ UNCHANGED << transfers, xfer, owner, kpending, kdone, gone,
                    nSubmitted, outstanding, slotOf, nStale, handle, dev,
                    conv, peak >>

NextIsoStatus ==
    \/ NextWire
    \/ \E x \in Xfers : CallWireUrb(x)
    \/ \E x \in Xfers : CallStatus(x)

SpecIsoStatus == InitIsoStatus /\ [][NextIsoStatus]_vars

\* One transfer of any type, newly constructed, cycled through submission,
\* completion and reap; result_length is read on a StdBufTransfer whenever
\* the caller holds it.
StdKinds == {"std_iso", "std_control"}

InitResult ==
    /\ \E kind \in Kinds \cup StdKinds :
         xfer = [x \in Xfers |->
                   IF kind = "std_control"
                   THEN StdBufTransferControl(128, 64, 1, 3, 258, 513,
                            CallerBuf(x, SETUP_LEN + MaxPayload))
                   ELSE NewTransfer(x, kind)]
    /\ owner = [x \in Xfers |-> IF x = 1 THEN "caller" ELSE "dropped"]
    /\ transfers = <<>>
    /\ pc = "idle"
    /\ kpending = {}
    /\ kdone = <<>>
    /\ gone = FALSE
    /\ last = NoCall
    /\ nSubmitted = 0
    /\ outstanding = [x \in Xfers |-> 0]
    /\ slotOf = [x \in Xfers |-> {}]
    /\ nStale = 0
    /\ peak = 0
    /\ handle = [x \in Xfers |-> "box"]
    /\ dev = NoDevice
    /\ conv = NoConv

\* The caller calls result_length() on a StdBufTransfer it holds.
CallResultLength(x) ==
    /\ pc = "idle"
    /\ owner[x] = "caller"
    /\ xfer[x].kind \in StdKinds
    /\ LET r == result_length(xfer[x])
       IN  last' = [NoCall EXCEPT !.op = "result_length", !.arg = x,
                                  !.res = IF r.ok THEN "Ok" ELSE "Err",
                                  !.tag = {r.val}]
    /\ UNCHANGED << transfers, xfer, owner, pc, kpending, kdone, gone,
                    nSubmitted, outstanding, slotOf, nStale, handle, dev,
                    conv, peak >>

NextResult ==
    \/ NextWire
    \/ \E x \in Xfers : CallResultLength(x)

SpecResult == InitResult /\ [][NextResult]_vars

\* Two transfers and both submit calls on a device that stays connected: a
\* rejected transfer may be handed back or dropped while the other one
\* occupies a slot.
NextTable ==
    \/ \E x \in Xfers : SubmitGiveBack(x)
    \/ \E x \in Xfers : Submit(x)
    \/ ReapNowait
    \/ ReapWait
    \/ ReapWake
    \/ KernelComplete

SpecTable == Init /\ [][NextTable]_vars

\* The caller makes a reap call, or is woken in one.
Reap ==
    \/ ReapNowait
    \/ ReapWait
    \/ ReapWake

\* The kernel completes the pending URB of transfer x.
KernelCompleteOf(x) ==
    /\ KernelComplete
    /\ kdone'[Len(kdone')].urbp = x

\* The device stays connected, the kernel completes every URB it accepted,
\* and the caller keeps making reap calls (as the loop of stream_test does).
Fairness ==
    /\ \A x \in Xfers : WF_vars(KernelCompleteOf(x))
    /\ WF_vars(Reap)

\* stream_test: the transfers it gets rolling are two boxed isochronous
\* ones.
InitLive ==
    /\ owner = [x \in Xfers |->
                  IF x <= STREAM_TRANSFERS THEN "caller" ELSE "dropped"]
    /\ xfer = [x \in Xfers |-> NewTransfer(x, "iso")]
    /\ transfers = <<>>
    /\ pc = "idle"
    /\ kpending = {}
    /\ kdone = <<>>
    /\ gone = FALSE
    /\ last = NoCall
    /\ nSubmitted = 0
    /\ outstanding = [x \in Xfers |-> 0]
    /\ slotOf = [x \in Xfers |-> {}]
    /\ nStale = 0
    /\ peak = 0
    /\ handle = [x \in Xfers |-> "box"]
    /\ dev = NoDevice
    /\ conv = NoConv

SpecLive == InitLive /\ [][NextTable]_vars /\ Fairness

\* -------------------------------------------------------------- DeviceInfo

\* <[u8]>::starts_with and <[u8]>::contains(&b':') on a name's bytes.
starts_with(s, pre) == Len(s) >= Len(pre) /\ SubSeq(s, 1, Len(pre)) = pre
contains_colon(s) == \E i \in 1..Len(s) : SubSeq(s, i, i) = ":"

NoName == [some |-> FALSE, name |-> ""]

\* Path::file_name (std): the last component of the path when that is a
\* normal one.  Trailing separators and trailing "." components are not
\* components; a path that is empty, the root, "." or ends in ".." has no
\* file name.
RECURSIVE file_name(_)
file_name(p) ==
    LET n == Len(p)
    IN  IF n = 0 THEN NoName
        ELSE IF SubSeq(p, n, n) = "/" THEN file_name(SubSeq(p, 1, n - 1))
        ELSE IF p = "." THEN NoName
        ELSE IF n >= 2 /\ SubSeq(p, n - 1, n) = "/."
        THEN file_name(SubSeq(p, 1, n - 2))
        ELSE LET slashes == {i \in 1..n : SubSeq(p, i, i) = "/"}
                 start   == IF slashes = {} THEN 1
                            ELSE 1 + CHOOSE m \in slashes :
                                         \A k \in slashes : k <= m
                 comp    == SubSeq(p, start, n)
             IN  IF comp = ".." THEN NoName
                 ELSE [some |-> TRUE, name |-> comp]

\* An is_device_dirname that tests the whole path instead of its file name.
is_device_dirname_whole_path(dirname) ==
    ~starts_with(dirname, "usb") /\ ~contains_colon(dirname)

\* is_device_dirname
is_device_dirname(dirname) ==
    LET f == file_name(dirname)
    IN  IF f.some
        THEN ~starts_with(f.name, "usb") /\ ~contains_colon(f.name)
        ELSE FALSE

\* DeviceInfo::from_devpath: the DeviceInfo keeps the path as given.
from_devpath(p) ==
    IF is_device_dirname(p)
    THEN [res |-> "Ok", val |-> << [dir |-> p] >>, err |-> "none"]
    ELSE [res |-> "Err", val |-> <<>>, err |-> "Other"]

\* deviceinfo_enumerate, collected: rd is what fs::read_dir answered, an
\* error or the directory's entries, each of them a name or an error.
deviceinfo_enumerate(rd) ==
    IF ~rd.ok THEN <<>>
    ELSE LET good  == SelectSeq(rd.entries, LAMBDA e : e.ok)
             names == [i \in 1..Len(good) |-> good[i].name]
             devs  == SelectSeq(names, is_device_dirname)
         IN  [i \in 1..Len(devs) |-> [dir |-> devs[i]]]

\* Names found in /sys/bus/usb/devices and names close to them: devices
\* ("1-5", "2-1.3"), root hubs ("usb1"), interfaces ("1-0:1.0"), and names
\* that contain "usb" elsewhere or only part of it.
EntryNames == {"1-5", "2-1.3", "usb1", "usb", "1-0:1.0", "us", "1usb"}

\* Paths given to from_devpath, as <<directories, name, tail>>: a name under
\* some directories (which may themselves start with "usb" or hold a ':'),
\* followed by nothing, a separator, a "." or a ".." component; and paths
\* that have no name at all.
PathParts ==
    ({"", "/sys/bus/usb/devices/", "usb/", "a:b/"} \X EntryNames
        \X {"", "/", "/.", "/.."})
    \cup {<<"", "", t>> : t \in {"", "/", ".", "..", "./", "/.."}}

\* What fs::read_dir answers: an error, or up to MaxEntries entries.
DirEntries ==
    {[ok |-> TRUE, name |-> n] : n \in {"1-5", "usb1", "1-0:1.0", "1usb"}}
    \cup {[ok |-> FALSE, name |-> ""]}

ReadDirAnswers ==
    {[ok |-> FALSE, entries |-> <<>>]}
    \cup {[ok |-> TRUE, entries |-> e] :
             e \in UNION {[1..k -> DirEntries] : k \in 0..MaxEntries}}

\* The caller calls DeviceInfo::from_devpath.
FromDevpath ==
    /\ pc = "idle"
    /\ \E parts \in PathParts :
         LET r == from_devpath(parts[1] \o parts[2] \o parts[3])
         IN  dev' = [dev EXCEPT !.call =
                        [NoDevCall EXCEPT !.op = "from_devpath",
                                          !.args = parts, !.res = r.res,
                                          !.val = r.val, !.err = r.err]]
    /\ last' = NoCall
    /\ UNCHANGED << transfers, xfer, owner, pc, kpending, kdone, gone,
                    nSubmitted, outstanding, slotOf, nStale, handle, conv, peak >>

\* The caller runs deviceinfo_enumerate() to its end.
DeviceinfoEnumerate ==
    /\ pc = "idle"
    /\ \E rd \in ReadDirAnswers :
         dev' = [dev EXCEPT !.call =
                    [NoDevCall EXCEPT !.op = "deviceinfo_enumerate",
                                      !.args = << rd >>, !.res = "Ok",
                                      !.val = deviceinfo_enumerate(rd)]]
    /\ last' = NoCall
    /\ UNCHANGED << transfers, xfer, owner, pc, kpending, kdone, gone,
                    nSubmitted, outstanding, slotOf, nStale, handle, conv, peak >>

NextInfo ==
    \/ FromDevpath
    \/ DeviceinfoEnumerate

SpecInfo == Init /\ [][NextInfo]_vars

\* ------------------------------------------------- bulk and interrupt types

\* Endpoint numbers the caller passes: OUT ones (bit 7 clear) and IN ones.
Endpoints == {0, 2, 129, 255}

\* One transfer object that the caller has yet to construct.
InitMono ==
    /\ \E y \in Xfers :
         owner = [x \in Xfers |-> IF x = y THEN "unbuilt" ELSE "dropped"]
    /\ xfer = [x \in Xfers |-> NewTransfer(x, "bulk")]
    /\ transfers = <<>>
    /\ pc = "idle"
    /\ kpending = {}
    /\ kdone = <<>>
    /\ gone = FALSE
    /\ last = NoCall
    /\ nSubmitted = 0
    /\ outstanding = [x \in Xfers |-> 0]
    /\ slotOf = [x \in Xfers |-> {}]
    /\ nStale = 0
    /\ peak = 0
    /\ handle = [x \in Xfers |-> "box"]
    /\ dev = NoDevice
    /\ conv = NoConv

\* The caller constructs transfer object x with one of the four
\* constructors; a failed assertion is a panic and leaves no object.
Construct(x) ==
    /\ pc = "idle"
    /\ owner[x] = "unbuilt"
    /\ \E kind \in MonoKinds, endpoint \in Endpoints, len \in {0, MaxPayload} :
         LET r == MonoNew(kind, endpoint, CallerBuf(x, len))
         IN  /\ xfer' = IF r.panic THEN xfer ELSE [xfer EXCEPT ![x] = r.t]
             /\ owner' = IF r.panic THEN owner
                         ELSE [owner EXCEPT ![x] = "caller"]
             /\ pc' = IF r.panic THEN "panicked" ELSE "idle"
             /\ last' = [op |-> "new",
                         res |-> IF r.panic THEN "panic" ELSE "Ok",
                         arg |-> x, xfer |-> None, slot |-> {},
                         err |-> NoError, ioctls |-> <<>>, tag |-> {},
                         kind |-> kind, endpoint |-> endpoint]
    /\ UNCHANGED << transfers, kpending, kdone, gone,
                    nSubmitted, outstanding, slotOf, nStale, handle, dev, conv, peak >>

NextMono ==
    \/ \E x \in Xfers : Construct(x)
    \/ NextWire

SpecMono == InitMono /\ [][NextMono]_vars

\* -------------------------------------------------------------- properties

IsSubmit(l) == l.op \in {"submit_give_back_on_fail", "submit"}
IsReap(l) == l.op \in {"reap_nowait", "reap_wait"}

\* The kernel holds the URB of transfer x: pending, or completed and not
\* yet reaped.
InKernel(x, kp, kd) ==
    \/ \E u \in kp : u.urbp = x
    \/ \E i \in 1..Len(kd) : kd[i].urbp = x


\* C1: every accepted submission is returned by at most one reap, and only
\* by the reap that takes its completion: a successful reap returns exactly
\* the transfer whose URB heads the kernel's completion queue, that transfer
\* had one accepted submission outstanding and has none afterwards, a
\* transfer never has more than one submission outstanding, it has one
\* exactly while the kernel holds its URB, and a reap that finds a completion
\* returns it.
C1_AcceptedReapedOnce ==
    [][ /\ \A x \in Xfers :
             /\ outstanding'[x] \in {0, 1}
             /\ outstanding'[x] = 1 <=> InKernel(x, kpending', kdone')
        /\ (IsReap(last') /\ last'.res = "Ok") =>
             /\ kdone # <<>>
             /\ last'.xfer = Head(kdone).urbp
             /\ outstanding[last'.xfer] = 1
             /\ outstanding'[last'.xfer] = 0
             /\ kdone' = Tail(kdone)
        /\ (IsReap(last') /\ kdone # <<>>) => last'.res = "Ok"
      ]_vars

\* A reap returned a transfer after a slot was reused, with another
\* transfer still in flight.
C1_Witness ==
    /\ IsReap(last) /\ last.res = "Ok"
    /\ nSubmitted = MaxAccepts
    /\ Len(transfers) < nSubmitted
    /\ \E y \in Xfers : y # last.xfer /\ owner[y] = "engine"

\* C2: the slot a successful submit returned holds that transfer at every
\* state until the reap that returns it; the recorded slot changes only by
\* that reap; and a submit of another transfer, accepted or rejected, is
\* neither assigned that slot nor stamps that index.
C2_SlotStable ==
    [][ /\ \A x \in Xfers : \A sl \in slotOf'[x] :
             sl + 1 \in DOMAIN transfers' /\ transfers'[sl + 1] = x
        /\ \A x \in Xfers : slotOf[x] # {} =>
             \/ slotOf'[x] = slotOf[x]
             \/ /\ slotOf'[x] = {}
                /\ IsReap(last') /\ last'.res = "Ok" /\ last'.xfer = x
        /\ IsSubmit(last') =>
             \A x \in Xfers \ {last'.arg} :
                 /\ last'.slot \cap slotOf[x] = {}
                 /\ slotOf[x] # {} =>
                      xfer'[last'.arg].urb.usercontext \notin slotOf[x]
      ]_vars

\* A rejected submit made while another transfer was completed by the
\* kernel and not yet reaped.
C2_Witness ==
    /\ IsSubmit(last) /\ last.res = "Err"
    /\ \E x \in Xfers \ {last.arg} :
         /\ slotOf[x] # {}
         /\ \E i \in 1..Len(kdone) : kdone[i].urbp = x

\* C3: a rejected submit_give_back_on_fail returns the kernel's error with
\* the very transfer passed in, which the caller holds again; the slot tried
\* for it is empty, the transfer is in no slot, and the occupied slots and
\* their occupants are those before the call.
C3_RejectGivesBack ==
    [][ (last'.op = "submit_give_back_on_fail" /\ last'.res # "Ok") =>
          /\ last'.res = "Err"
          /\ last'.err.errno \in {"EINVAL", "ENODEV"}
          /\ last'.xfer = last'.arg
          /\ last'.arg \in Xfers
          /\ owner'[last'.arg] = "caller"
          /\ LET id == xfer'[last'.arg].urb.usercontext
             IN  id + 1 \in DOMAIN transfers' /\ transfers'[id + 1] = None
          /\ SlotsOf(transfers', last'.arg) = {}
          /\ Occupied(transfers') = Occupied(transfers)
          /\ \A i \in Occupied(transfers) : transfers'[i] = transfers[i]
      ]_vars

\* A submission was rejected while another transfer occupied a slot.
C3_Witness ==
    /\ last.op = "submit_give_back_on_fail" /\ last.res = "Err"
    /\ Occupied(transfers) # {}

\* The slot insert_transfer picks in table tbl: the lowest free index, or
\* the table's length when every slot is occupied.
SlotTried(tbl) ==
    IF Occupied(tbl) = DOMAIN tbl THEN Len(tbl)
    ELSE SetMin(DOMAIN tbl \ Occupied(tbl)) - 1

\* Number of packets of capacity plen that cover len bytes.
PacketsFor(len, plen) == (len + plen - 1) \div plen

C5_ExclusiveOwner ==
    /\ \A i \in DOMAIN transfers : transfers[i] \in {None} \cup Xfers
    /\ \A x \in Xfers :
         /\ owner[x] \in {"caller", "engine", "dropped"}
         /\ Cardinality(SlotsOf(transfers, x))
              = (IF owner[x] = "engine" THEN 1 ELSE 0)
         /\ owner[x] = "engine" <=> outstanding[x] = 1

\* Every transfer is in flight at once, after a slot was reused.
C5_Witness ==
    /\ \A x \in Xfers : owner[x] = "engine"
    /\ nSubmitted = MaxAccepts

\* C6: reap_nowait with no completion pending fails and changes no slot, no
\* transfer and no kernel queue; on a connected device the error is EAGAIN,
\* of kind WouldBlock; and a reap error has kind WouldBlock only then, so a
\* hard error (device gone, interrupted) never looks like it.
C6_WouldBlockDistinct ==
    [][ /\ (last'.op = "reap_nowait" /\ kdone = <<>>) =>
             /\ last'.res = "Err"
             /\ last'.xfer = None
             /\ ~gone => last'.err = [errno |-> "EAGAIN", kind |-> "WouldBlock"]
             /\ gone => last'.err.kind # "WouldBlock"
             /\ transfers' = transfers /\ owner' = owner /\ xfer' = xfer
             /\ kpending' = kpending /\ kdone' = kdone
        /\ (IsReap(last') /\ last'.res = "Err") =>
             (last'.err.kind = "WouldBlock"
                <=> (last'.op = "reap_nowait" /\ ~gone /\ kdone = <<>>))
      ]_vars

\* reap_nowait returned would-block while a transfer was in flight.
C6_Witness ==
    /\ last.op = "reap_nowait" /\ last.err.kind = "WouldBlock"
    /\ kpending # {}

\* C7: reap_nowait never sleeps in its ioctl and ends with a transfer or an
\* error; reap_wait goes to sleep only when no completion is pending and the
\* device is connected, returns a transfer exactly when a completion is
\* pending, and otherwise returns a hard error (device gone, interrupted),
\* never would-block.
C7_ReapBlocking ==
    [][ /\ pc' # "reap_nowait"
        /\ last'.op = "reap_nowait" =>
             /\ pc = "idle"
             /\ last'.res \in {"Ok", "Err"}
             /\ last'.res = "Ok" <=> kdone # <<>>
        /\ last'.op = "reap_wait" =>
             /\ last'.res \in {"Ok", "Err"}
             /\ last'.res = "Ok" <=> kdone # <<>>
             /\ last'.res = "Err" =>
                  /\ last'.err.kind # "WouldBlock"
                  /\ last'.err.errno \in {"ENODEV", "EINTR"}
        /\ (pc = "idle" /\ pc' = "reap_wait") => (kdone = <<>> /\ ~gone)
      ]_vars

\* The caller is asleep in reap_wait while a transfer is in flight and none
\* has completed.
C7_Witness ==
    /\ pc = "reap_wait"
    /\ kpending # {}
    /\ kdone = <<>>

\* C8: a reap whose ioctl succeeded reads the tag of the returned URB; when
\* the tag names an occupied slot it empties that slot and returns its
\* occupant, and when it names no occupied slot (an index past the table, or
\* an empty slot) it panics: it returns neither a transfer nor an error and
\* changes no slot.
C8_ReapTagOrPanic ==
    [][ IsReap(last') =>
          /\ last'.tag # {} <=> kdone # <<>>
          /\ \A tag \in last'.tag :
               /\ owner[Head(kdone).urbp] # "dropped" =>
                      tag = xfer[Head(kdone).urbp].urb.usercontext
               /\ IF tag + 1 \in DOMAIN transfers /\ transfers[tag + 1] # None
                  THEN /\ last'.res = "Ok"
                       /\ last'.xfer = transfers[tag + 1]
                       /\ transfers' = [transfers EXCEPT ![tag + 1] = None]
                       /\ pc' = "idle"
                  ELSE /\ last'.res = "panic"
                       /\ last'.xfer = None
                       /\ last'.err = NoError
                       /\ transfers' = transfers
                       /\ pc' = "panicked"
      ]_vars

\* A URB address was delivered a second time and its tag named a slot that
\* was already empty: reap panicked.
C8_Witness ==
    /\ IsReap(last) /\ last.res = "panic"
    /\ pc = "panicked"
    /\ nStale > 0
    /\ \E tag \in last.tag : tag + 1 \in DOMAIN transfers

\* C9: a submit call issues exactly one submit ioctl and a reap call exactly
\* one reap ioctl; the kernel's error is the call's error; a reap that finds
\* nothing fails at once, and a failed reap leaves every slot, transfer and
\* kernel queue as it was.
C9_NoRetry ==
    [][ /\ IsSubmit(last') =>
             /\ last'.ioctls = <<"SUBMITURB">>
             /\ last'.res = "Err" =>
                  last'.err.errno = (IF gone THEN "ENODEV" ELSE "EINVAL")
        /\ IsReap(last') =>
             /\ last'.ioctls = << IF last'.op = "reap_wait"
                                  THEN "REAPURB" ELSE "REAPURBNDELAY" >>
             /\ kdone = <<>> => last'.res = "Err"
             /\ last'.res = "Err" =>
                  /\ kdone = <<>>
                  /\ last'.err.errno =
                        (IF gone THEN "ENODEV"
                         ELSE IF last'.op = "reap_nowait" THEN "EAGAIN"
                         ELSE "EINTR")
                  /\ transfers' = transfers /\ owner' = owner /\ xfer' = xfer
                  /\ kpending' = kpending /\ kdone' = kdone
      ]_vars

\* A reap failed with the device gone while the engine held a transfer.
C9_Witness ==
    /\ IsReap(last) /\ last.res = "Err" /\ last.err.errno = "ENODEV"
    /\ \E x \in Xfers : owner[x] = "engine"

\* C10: a slot is Empty or holds one transfer; it becomes occupied only by an
\* accepted submit of that transfer, which returns its index; an occupied
\* slot changes only by becoming Empty in the successful reap that returns
\* its occupant; and every occupant is a transfer the kernel accepted and
\* that was not reaped since.
C10_SlotStates ==
    [][ /\ \A i \in DOMAIN transfers' :
             /\ transfers'[i] \in {None} \cup Xfers
             /\ transfers'[i] # None =>
                  /\ outstanding'[transfers'[i]] = 1
                  /\ InKernel(transfers'[i], kpending', kdone')
             /\ ((i \notin DOMAIN transfers \/ transfers[i] = None)
                   /\ transfers'[i] # None) =>
                  /\ IsSubmit(last') /\ last'.res = "Ok"
                  /\ last'.slot = {i - 1}
                  /\ transfers'[i] = last'.arg
        /\ \A i \in DOMAIN transfers :
             (transfers[i] # None
                /\ (i \notin DOMAIN transfers' \/ transfers'[i] # transfers[i])) =>
                  /\ i \in DOMAIN transfers'
                  /\ transfers'[i] = None
                  /\ IsReap(last') /\ last'.res = "Ok"
                  /\ last'.xfer = transfers[i]
      ]_vars

\* After a reap one slot is Empty again while another is still InFlight.
C10_Witness ==
    /\ IsReap(last) /\ last.res = "Ok"
    /\ \E i, j \in DOMAIN transfers : transfers[i] = None /\ transfers[j] # None

\* C11: discard, whatever slot number it is given and whatever the slots
\* hold, panics without issuing a kernel call and leaves every slot, every
\* transfer and the kernel's queues as they were; an occupied slot changes
\* only in a reap call.
C11_DiscardPanics ==
    [][ /\ last'.op = "discard" =>
             /\ last'.res = "panic"
             /\ pc' = "panicked"
             /\ last'.ioctls = <<>>
             /\ last'.xfer = None
             /\ transfers' = transfers /\ xfer' = xfer /\ owner' = owner
             /\ kpending' = kpending /\ kdone' = kdone
        /\ \A i \in DOMAIN transfers :
             (transfers[i] # None
                /\ (i \notin DOMAIN transfers' \/ transfers'[i] # transfers[i])) =>
                  IsReap(last')
      ]_vars

\* discard was called while one slot was occupied and another one empty.
C11_Witness ==
    /\ last.op = "discard" /\ pc = "panicked"
    /\ \E i, j \in DOMAIN transfers : transfers[i] # None /\ transfers[j] = None

\* C12: the kernel's completion queue grows only at its tail, by the
\* completion the kernel delivers, and shrinks only at its head, in a reap
\* call; every reap that finds a completion succeeds and returns the
\* transfer of the oldest one.  So the n-th successful reap returns the
\* transfer of the n-th completion, whatever the submit order and the slots.
C12_KernelOrder ==
    [][ /\ \/ kdone' = kdone
           \/ /\ last'.op = "none"
              /\ \E u \in kpending, st \in KernelStatuses :
                     kdone' = Append(kdone, [urbp |-> u.urbp, status |-> st])
           \/ /\ IsReap(last')
              /\ kdone # <<>>
              /\ kdone' = Tail(kdone)
        /\ (IsReap(last') /\ kdone # <<>>) =>
             /\ last'.res = "Ok"
             /\ last'.xfer = Head(kdone).urbp
             /\ kdone' = Tail(kdone)
        /\ (IsReap(last') /\ kdone = <<>>) => last'.res # "Ok"
      ]_vars

\* Two transfers were submitted into slots 0 and 1 in that order and the
\* first reap returned the one of slot 1, which completed first, while the
\* completion of the other was already queued behind it.
C12_Witness ==
    /\ IsReap(last) /\ last.res = "Ok"
    /\ nSubmitted = 2
    /\ last.tag = {1}
    /\ Len(transfers) = 2 /\ transfers[1] # None
    /\ kdone # <<>> /\ Head(kdone).urbp = transfers[1]

UrbAddrInSlot(x, i) ==
    deref_mut(handle[x], x, SlotPlace(i, Len(transfers)))

\* C14 as stated: for every transfer the kernel holds (pending, or completed
\* and not yet reaped) the URB address and the buffer address handed to the
\* kernel at submit are the addresses of that transfer's URB and buffer now,
\* in the slot where the engine keeps it.
C14_AddressesStable ==
    /\ \A u \in kpending :
         /\ u.addr = deref_mut(handle[u.urbp], u.urbp, ParamPlace)
         /\ u.urb.buffer = xfer[u.urbp].buf.addr
    /\ \A x \in Xfers :
         InKernel(x, kpending, kdone) =>
           \E i \in DOMAIN transfers :
              /\ transfers[i] = x
              /\ owner[x] = "engine"
              /\ deref_mut(handle[x], x, ParamPlace) = UrbAddrInSlot(x, i)
              /\ xfer[x].urb.buffer = xfer[x].buf.addr

\* C14 for boxed transfers only: the same, for every transfer whose handle
\* keeps its target behind a pointer (Box<T>, &mut T).
C14_BoxAddressesStable ==
    /\ \A u \in kpending :
         /\ u.addr = deref_mut(handle[u.urbp], u.urbp, ParamPlace)
         /\ u.urb.buffer = xfer[u.urbp].buf.addr
    /\ \A x \in Xfers :
         (handle[x] = "box" /\ InKernel(x, kpending, kdone)) =>
           \E i \in DOMAIN transfers :
              /\ transfers[i] = x
              /\ owner[x] = "engine"
              /\ deref_mut(handle[x], x, ParamPlace) = UrbAddrInSlot(x, i)
              /\ xfer[x].urb.buffer = xfer[x].buf.addr

\* A transfer held by an inline handle was accepted by the kernel: the
\* kernel holds the address the URB had in submit's parameter, and the URB
\* is now in the slot table.
C14_Witness ==
    /\ last.op = "submit_give_back_on_fail" /\ last.res = "Ok"
    /\ handle[last.arg] = "inline"
    /\ \E u \in kpending :
         /\ u.urbp = last.arg
         /\ \E i \in DOMAIN transfers :
              transfers[i] = last.arg /\ u.addr # UrbAddrInSlot(last.arg, i)

\* A boxed transfer is still in flight in slot 1 after the table grew to
\* hold it and the transfer of slot 0 was reaped.
C14_BoxWitness ==
    /\ IsReap(last) /\ last.res = "Ok" /\ last.tag = {0}
    /\ Len(transfers) = 2 /\ transfers[2] # None
    /\ handle[transfers[2]] = "box"

\* C15: a submit call puts the transfer in the lowest-index empty slot when
\* the table has one and leaves the table's length alone; it appends one
\* slot, and uses it, only when every slot is occupied; no other step
\* changes the table's length.  So the table is never longer than the
\* number of transfers the caller keeps cycling, however many submissions
\* it makes.
C15_SlotReuse ==
    [][ /\ IsSubmit(last') =>
             LET free == DOMAIN transfers \ Occupied(transfers)
             IN  /\ free # {} =>
                      /\ Len(transfers') = Len(transfers)
                      /\ last'.res = "Ok" =>
                           /\ last'.slot = {SetMin(free) - 1}
                           /\ transfers'[SetMin(free)] = last'.arg
                      /\ xfer'[last'.arg].urb.usercontext = SetMin(free) - 1
                 /\ free = {} =>
                      /\ Len(transfers') = Len(transfers) + 1
                      /\ last'.res = "Ok" =>
                           /\ last'.slot = {Len(transfers)}
                           /\ transfers'[Len(transfers) + 1] = last'.arg
                      /\ xfer'[last'.arg].urb.usercontext = Len(transfers)
                 /\ \A i \in Occupied(transfers) : transfers'[i] = transfers[i]
        /\ ~IsSubmit(last') => Len(transfers') = Len(transfers)
        /\ Len(transfers') <= NumXfers
      ]_vars

\* The third accepted submission went into slot 0, freed by a reap, while
\* slot 1 was occupied and the table kept its two slots.
C15_Witness ==
    /\ IsSubmit(last) /\ last.res = "Ok" /\ last.slot = {0}
    /\ nSubmitted = 3
    /\ Len(transfers) = 2 /\ transfers[2] # None

\* C16: every submit call that reaches the kernel, a first submission or a
\* resubmission, has wired the URB from the transfer's buffer as it is at
\* that call: the URB the kernel receives points at the current buffer and
\* carries its length (bulk, control), the setup length of the current
\* buffer (control), or the packet count and packet lengths that cover the
\* current buffer (isochronous).
C16_WiredEverySubmit ==
    [][ (IsSubmit(last') /\ last'.res \in {"Ok", "Err"}) =>
          LET x   == last'.arg
              t   == xfer[x]
              t2  == xfer'[x]
              len == Len(t.buf.bytes)
              n   == Min(PacketsFor(len, t.plen), MAX_ISO_PACKETS)
          IN  /\ t2.buf.addr = t.buf.addr /\ Len(t2.buf.bytes) = len
              /\ t2.urb.buffer = t.buf.addr
              /\ t.kind \in {"bulk", "control"} => t2.urb.buffer_length = len
              /\ t.kind = "control" =>
                     /\ t2.setup.wLength = len - SETUP_LEN
                     /\ t2.buf.bytes[7] = len - SETUP_LEN
                     /\ t2.buf.bytes[8] = 0
              /\ t.kind = "iso" =>
                     /\ t2.urb.number_of_packets = n
                     /\ \A i \in 1..n :
                          t2.iso_packets[i].length
                             = Min(t.plen, len - (i - 1) * t.plen)
              /\ last'.res = "Ok" =>
                     \E u \in kpending' :
                        /\ u \notin kpending
                        /\ u.urbp = x
                        /\ u.urb = t2.urb
      ]_vars

\* A transfer was reaped, given another buffer by the caller and accepted
\* again: the URB points at the new buffer.
C16_Witness ==
    /\ IsSubmit(last) /\ last.res = "Ok"
    /\ nSubmitted >= 2
    /\ LET t == xfer[last.arg]
       IN  /\ t.buf.addr # NewTransfer(last.arg, t.kind).buf.addr
           /\ t.urb.buffer = t.buf.addr
           /\ t.urb.status # EINVAL_STATUS

\* C17: after wire_urb on an isochronous transfer with buffer length L and
\* packet capacity P >= 1, number_of_packets is min(ceil(L / P), 32) and
\* packet i (counted from 0) has length min(P, L - i * P); L = 2304 with
\* P = 256 gives 9 packets of 256, L = 100 with P = 256 one packet of 100,
\* L = 0 no packet.
C17_IsoWindowing ==
    (last.op = "wire_urb" /\ xfer[last.arg].kind = "iso") =>
       LET t == xfer[last.arg]
           L == Len(t.buf.bytes)
           P == t.plen
           n == t.urb.number_of_packets
       IN  /\ last.res = "Ok"
           /\ P >= 1
           /\ n = Min(PacketsFor(L, P), MAX_ISO_PACKETS)
           /\ \A i \in 0..(n - 1) :
                  t.iso_packets[i + 1].length = Min(P, L - i * P)
           /\ (L = 2304 /\ P = 256) =>
                  /\ n = 9
                  /\ \A i \in 1..9 : t.iso_packets[i].length = 256
           /\ (L = 100 /\ P = 256) =>
                  /\ n = 1
                  /\ t.iso_packets[1].length = 100
           /\ L = 0 => n = 0
           /\ t.urb.buffer = t.buf.addr

\* wire_urb ran on a buffer whose last packet is a short one.
C17_Witness ==
    /\ last.op = "wire_urb" /\ last.res = "Ok"
    /\ LET t == xfer[last.arg]
       IN  /\ t.kind = "iso"
           /\ t.plen = 2 /\ Len(t.buf.bytes) = 7
           /\ t.urb.number_of_packets = 4
           /\ t.iso_packets[4].length = 1

\* The sum of the lengths of the first n descriptors of pk.
RECURSIVE SumLengths(_, _)
SumLengths(pk, n) ==
    IF n = 0 THEN 0 ELSE pk[n].length + SumLengths(pk, n - 1)

\* C18: wire_urb on an isochronous transfer never panics and reports no
\* error, whatever the buffer length; the lengths of the populated
\* descriptors sum to min(L, 32 * P); when L exceeds 32 * P all 32
\* descriptors are populated, each with P, and the bytes from 32 * P on are
\* covered by no descriptor.
C18_IsoTruncation ==
    (last.op = "wire_urb" /\ xfer[last.arg].kind = "iso") =>
       LET t == xfer[last.arg]
           L == Len(t.buf.bytes)
           P == t.plen
           n == t.urb.number_of_packets
       IN  /\ last.res = "Ok" /\ pc = "idle"
           /\ n \in 0..MAX_ISO_PACKETS
           /\ SumLengths(t.iso_packets, n) = Min(L, MAX_ISO_PACKETS * P)
           /\ L > MAX_ISO_PACKETS * P =>
                  /\ n = MAX_ISO_PACKETS
                  /\ \A i \in 1..n : t.iso_packets[i].length = P
                  /\ SumLengths(t.iso_packets, n) < L

\* wire_urb ran on a buffer one byte longer than 32 packets of capacity 2.
C18_Witness ==
    /\ last.op = "wire_urb" /\ last.res = "Ok"
    /\ LET t == xfer[last.arg]
       IN  /\ t.kind = "iso"
           /\ t.plen = 2 /\ Len(t.buf.bytes) = 2 * MAX_ISO_PACKETS + 1
           /\ t.urb.number_of_packets = MAX_ISO_PACKETS

\* C19 as stated: every submit call of an isochronous transfer, of either
\* type, a first submission or a resubmission after the kernel populated
\* the descriptors, hands the kernel descriptors whose actual length is 0
\* and whose status is -22, for each of the first number_of_packets.
C19_DescriptorsReset ==
    [][ (IsSubmit(last') /\ last'.res \in {"Ok", "Err"}
           /\ xfer[last'.arg].kind \in IsoKinds) =>
          LET t2 == xfer'[last'.arg]
          IN  \A i \in 1..t2.urb.number_of_packets :
                 /\ t2.iso_packets[i].actual_length = 0
                 /\ t2.iso_packets[i].status = EINVAL_STATUS
      ]_vars

\* C19 for IsoBufTransfer only: the same, for every submit call of an
\* IsoBufTransfer.
C19_IsoBufDescriptorsReset ==
    [][ (IsSubmit(last') /\ last'.res \in {"Ok", "Err"}
           /\ xfer[last'.arg].kind = "iso") =>
          LET t2 == xfer'[last'.arg]
          IN  \A i \in 1..t2.urb.number_of_packets :
                 /\ t2.iso_packets[i].actual_length = 0
                 /\ t2.iso_packets[i].status = EINVAL_STATUS
      ]_vars

\* A StdBufTransfer isochronous transfer that completed with status 0 was
\* reaped and accepted again with its descriptor still holding the status
\* and actual length of the first completion.
C19_Witness ==
    /\ IsSubmit(last) /\ last.res = "Ok"
    /\ nSubmitted = 2
    /\ LET t == xfer[last.arg]
       IN  /\ t.kind = "std_iso"
           /\ t.urb.number_of_packets = 1
           /\ t.iso_packets[1].status = 0
           /\ t.iso_packets[1].actual_length > 0

\* An IsoBufTransfer whose descriptors the kernel populated was accepted
\* again with the descriptors reset.
C19_IsoBufWitness ==
    /\ IsSubmit(last) /\ last.res = "Ok"
    /\ nSubmitted = 2
    /\ LET t == xfer[last.arg]
       IN  /\ t.kind = "iso"
           /\ t.urb.status = 0
           /\ t.urb.number_of_packets = 2
           /\ t.iso_packets[1].status = EINVAL_STATUS

\* The value of the little-endian u16 at byte offset off (counted from 0) of
\* the byte sequence b.
LeU16(b, off) == b[off + 1] + 256 * b[off + 2]

\* C20 as stated: wire_urb on a control transfer whose buffer has length
\* len >= 8 does not panic; afterwards the first 8 buffer bytes are the
\* setup packet, its 16-bit fields low byte first, with the length field
\* equal to len - 8; the bytes from offset 8 on are unchanged; the URB points
\* at the buffer start with buffer_length = len.  len = 24 gives 16, and
\* device-to-host | vendor | interface gives the request type byte 0xC1.
C20_ControlFraming ==
    [][ (last'.op = "wire_urb" /\ xfer[last'.arg].kind = "control"
           /\ Len(xfer[last'.arg].buf.bytes) >= SETUP_LEN) =>
          LET t   == xfer[last'.arg]
              t2  == xfer'[last'.arg]
              b   == t2.buf.bytes
              len == Len(t.buf.bytes)
          IN  /\ last'.res = "Ok"
              /\ Len(b) = len
              /\ b[1] = t.setup.bmRequestType
              /\ b[2] = t.setup.bRequest
              /\ LeU16(b, 2) = t.setup.wValue
              /\ LeU16(b, 4) = t.setup.wIndex
              /\ LeU16(b, 6) = len - SETUP_LEN
              /\ \A i \in 1..SETUP_LEN : b[i] \in 0..255
              /\ \A i \in (SETUP_LEN + 1)..len : b[i] = t.buf.bytes[i]
              /\ t2.urb.buffer = t.buf.addr
              /\ t2.urb.buffer_length = len
              /\ len = 24 => (b[7] = 16 /\ b[8] = 0)
              /\ t.setup.bmRequestType = 128 + 64 + 1 => b[1] = 193
      ]_vars

\* C20 within the range of the length field: the same, with the length field
\* equal to len - 8 modulo 2^16, which is len - 8 for every len up to
\* 8 + 65535.
C20_ControlFramingU16 ==
    [][ (last'.op = "wire_urb" /\ xfer[last'.arg].kind = "control"
           /\ Len(xfer[last'.arg].buf.bytes) >= SETUP_LEN) =>
          LET t   == xfer[last'.arg]
              t2  == xfer'[last'.arg]
              b   == t2.buf.bytes
              len == Len(t.buf.bytes)
          IN  /\ last'.res = "Ok"
              /\ Len(b) = len
              /\ b[1] = t.setup.bmRequestType
              /\ b[2] = t.setup.bRequest
              /\ LeU16(b, 2) = t.setup.wValue
              /\ LeU16(b, 4) = t.setup.wIndex
              /\ LeU16(b, 6) = (len - SETUP_LEN) % (U16_MAX + 1)
              /\ len <= SETUP_LEN + U16_MAX => LeU16(b, 6) = len - SETUP_LEN
              /\ \A i \in 1..SETUP_LEN : b[i] \in 0..255
              /\ \A i \in (SETUP_LEN + 1)..len : b[i] = t.buf.bytes[i]
              /\ t2.urb.buffer = t.buf.addr
              /\ t2.urb.buffer_length = len
              /\ len = 24 => (b[7] = 16 /\ b[8] = 0)
              /\ t.setup.bmRequestType = 128 + 64 + 1 => b[1] = 193
      ]_vars

\* wire_urb ran on a control transfer with a payload of 65536 bytes: the
\* setup packet's length field is 0 while the URB's buffer_length counts the
\* whole buffer.
C20_Witness ==
    /\ last.op = "wire_urb" /\ last.res = "Ok"
    /\ LET t == xfer[last.arg]
       IN  /\ t.kind = "control"
           /\ Len(t.buf.bytes) = SETUP_LEN + U16_MAX + 1
           /\ LeU16(t.buf.bytes, 6) = 0
           /\ t.urb.buffer_length = SETUP_LEN + U16_MAX + 1

\* wire_urb ran on a 24-byte control buffer whose value and index fields
\* have different low and high bytes.
C20_U16Witness ==
    /\ last.op = "wire_urb" /\ last.res = "Ok"
    /\ LET t == xfer[last.arg]
       IN  /\ t.kind = "control"
           /\ Len(t.buf.bytes) = 24
           /\ SubSeq(t.buf.bytes, 1, SETUP_LEN) = << 193, 3, 2, 1, 1, 2, 16, 0 >>

\* C21: a submit (either variant) of a control transfer whose buffer is
\* shorter than 8 bytes panics and returns no error value; the panic comes
\* before any slot is occupied and before any kernel call: the slot table is
\* what it was, no ioctl was issued, and the kernel holds no new URB.
C21_ShortControlPanics ==
    [][ (IsSubmit(last') /\ xfer[last'.arg].kind = "control"
           /\ Len(xfer[last'.arg].buf.bytes) < SETUP_LEN) =>
          /\ last'.res = "panic"
          /\ pc' = "panicked"
          /\ last'.err = NoError
          /\ last'.xfer = None
          /\ last'.slot = {}
          /\ transfers' = transfers
          /\ last'.ioctls = <<>>
          /\ kpending' = kpending
          /\ kdone' = kdone
          /\ nSubmitted' = nSubmitted
      ]_vars

\* A submit panicked on a 7-byte control buffer while the slot table had a
\* free slot from an earlier submission of the transfer.
C21_Witness ==
    /\ IsSubmit(last) /\ last.res = "panic"
    /\ xfer[last.arg].kind = "control"
    /\ Len(xfer[last.arg].buf.bytes) = SETUP_LEN - 1
    /\ Len(transfers) > 0
    /\ Occupied(transfers) = {}

IsControlTransfer(c) ==
    c.op \in {"control_transfer", "control_transfer_in", "control_transfer_out"}

\* C22: the request-type byte of the request a synchronous control transfer
\* hands to the kernel, and of a Setup constructed from the same arguments,
\* is the bitwise OR of the three codes: direction in bit 7, type in bits
\* 5-6, recipient in bits 0-4; DeviceToHost, Vendor, Interface gives 0xC1;
\* request, value and index are passed through unchanged.
C22_RequestType ==
    IsControlTransfer(dev.call) =>
      LET a == dev.call.args
          s == SetupNew(a[1], a[2], a[3], a[4], a[5], a[6], 0)
      IN  \A b \in {dev.call.req.bmRequestType, s.bmRequestType} :
            /\ b = BitOr(BitOr(a[1], a[2]), a[3])
            /\ b \in 0..255
            /\ (b \div 128) * 128 = a[1]
            /\ ((b \div 32) % 4) * 32 = a[2]
            /\ b % 32 = a[3]
            /\ (a[1] = 128 /\ a[2] = 64 /\ a[3] = 1) => b = 193
          /\ dev.call.req.bRequest = a[4] /\ s.bRequest = a[4]
          /\ dev.call.req.wValue = a[5] /\ s.wValue = a[5]
          /\ dev.call.req.wIndex = a[6] /\ s.wIndex = a[6]

\* A control_transfer for DeviceToHost, Vendor, Interface with a value whose
\* two bytes differ was issued.
C22_Witness ==
    /\ dev.call.op = "control_transfer"
    /\ SubSeq(dev.call.args, 1, 3) = << 128, 64, 1 >>
    /\ dev.call.req.bmRequestType = 193
    /\ dev.call.req.wValue = 258

\* C23: a native-endian Setup converted to bus order and back, field by
\* field, has the original value in every field, on a little-endian and on a
\* big-endian host; and in between, each 16-bit field of the bus-endian form
\* lies in memory low byte first.
C23_SetupRoundTrip ==
    /\ conv.stage = "back" => conv.back = conv.native
    /\ conv.stage \in {"bus", "back"} =>
         /\ conv.bus.bmRequestType = conv.native.bmRequestType
         /\ conv.bus.bRequest = conv.native.bRequest
         /\ \A f \in {"wValue", "wIndex", "wLength"} :
              MemBytes(conv.host, conv.bus[f])
                = << conv.native[f] % 256, conv.native[f] \div 256 >>

\* A Setup went to bus order and back on a big-endian host, where the
\* bus-endian value field differs from the native one.
C23_Witness ==
    /\ conv.stage = "back"
    /\ conv.host = "big"
    /\ conv.native.wValue = 258
    /\ conv.bus.wValue = 513
    /\ conv.back.wValue = 258

StartsWith(s, pre) == Len(s) >= Len(pre) /\ SubSeq(s, 1, Len(pre)) = pre

\* C24: from_busdev opens the candidate paths in the order primary
\* (/dev/bus/usb/), first legacy (/dev/usbdev), second legacy
\* (/proc/bus/usb/); every path before the last one tried failed to open; on
\* success the file returned is the last path tried, which opened, and no
\* later path was tried; it succeeds whenever some path opens; when all three
\* fail it returns the error of the third attempt.
C24_OpenOrder ==
    dev.call.op = "from_busdev" =>
      LET c  == dev.call
          fs == c.args[3]
          n  == Len(c.opens)
      IN  /\ n \in 1..3
          /\ StartsWith(c.opens[1], "/dev/bus/usb/")
          /\ n >= 2 => StartsWith(c.opens[2], "/dev/usbdev")
          /\ n >= 3 => StartsWith(c.opens[3], "/proc/bus/usb/")
          /\ \A i \in 1..(n - 1) : fs[c.opens[i]] # "ok"
          /\ c.res \in {"Ok", "Err"}
          /\ c.res = "Ok" =>
               /\ fs[c.opens[n]] = "ok"
               /\ c.file = c.opens[n]
               /\ dev.open
          /\ c.res = "Err" =>
               /\ n = 3
               /\ fs[c.opens[3]] # "ok"
               /\ c.err = fs[c.opens[3]]
               /\ ~dev.open
          /\ (\E p \in DOMAIN fs : fs[p] = "ok") => c.res = "Ok"

\* from_busdev failed on all three paths, the first and the last with
\* different errors.
C24_Witness ==
    /\ dev.call.op = "from_busdev"
    /\ dev.call.res = "Err"
    /\ dev.call.err = "ENOENT"
    /\ dev.call.args[3][dev.call.opens[1]] = "EACCES"

\* from_busdev succeeded on the first legacy path although the second one
\* would have opened too.
C24_SecondWitness ==
    /\ dev.call.op = "from_busdev"
    /\ dev.call.res = "Ok"
    /\ Len(dev.call.opens) = 2
    /\ \A p \in DOMAIN dev.call.args[3] :
         dev.call.args[3][p] = "ok" <=> p # dev.call.opens[1]

\* Reading a decimal field back: its characters are digits, and its value.
IsDigits(s) ==
    /\ Len(s) > 0
    /\ \A i \in 1..Len(s) : \E d \in 0..9 : SubSeq(s, i, i) = DigitChar(d)

DigitOf(c) == CHOOSE d \in 0..9 : DigitChar(d) = c

RECURSIVE DecValue(_)
DecValue(s) ==
    IF Len(s) = 0 THEN 0
    ELSE 10 * DecValue(SubSeq(s, 1, Len(s) - 1))
           + DigitOf(SubSeq(s, Len(s), Len(s)))

\* f is n written in decimal and padded with zeros to 3 digits (longer only
\* when n needs more digits).
IsPadded3(f, n) ==
    /\ IsDigits(f)
    /\ DecValue(f) = n
    /\ Len(f) >= 3
    /\ Len(f) > 3 => SubSeq(f, 1, 1) # "0"

\* f is n written in decimal without padding.
IsPlain(f, n) ==
    /\ IsDigits(f)
    /\ DecValue(f) = n
    /\ Len(f) > 1 => SubSeq(f, 1, 1) # "0"

\* The ways to read path as prefix, a field, sep, a field.
Fields(path, prefix, sep) ==
    LET lp == Len(prefix)
        ls == Len(sep)
    IN  { << SubSeq(path, lp + 1, lp + w),
             SubSeq(path, lp + w + ls + 1, Len(path)) >> :
            w \in { v \in 1..(Len(path) - lp - ls - 1) :
                      /\ StartsWith(path, prefix)
                      /\ SubSeq(path, lp + v + 1, lp + v + ls) = sep } }

\* C25 as stated: each of the three candidate paths is formatted from the
\* bus number and the device number each written as a 3-digit zero-padded
\* decimal.
C25_AllPathsPadded ==
    dev.call.op = "from_busdev" =>
      LET c == dev.call
          n == Len(c.opens)
      IN  /\ \E f \in Fields(c.opens[1], "/dev/bus/usb/", "/") :
               IsPadded3(f[1], c.args[1]) /\ IsPadded3(f[2], c.args[2])
          /\ n >= 2 =>
               \E f \in Fields(c.opens[2], "/dev/usbdev", ".") :
                 IsPadded3(f[1], c.args[1]) /\ IsPadded3(f[2], c.args[2])
          /\ n >= 3 =>
               \E f \in Fields(c.opens[3], "/proc/bus/usb/", "/") :
                 IsPadded3(f[1], c.args[1]) /\ IsPadded3(f[2], c.args[2])

\* C25 as amended: the primary path /dev/bus/usb/BBB/DDD and the second
\* legacy path /proc/bus/usb/BBB/DDD are formatted from the bus number and
\* the device number each written as a 3-digit zero-padded decimal; the first
\* legacy path /dev/usbdevB.D is formatted from the two numbers written as
\* plain decimals without padding.
C25_PathFormats ==
    dev.call.op = "from_busdev" =>
      LET c == dev.call
          n == Len(c.opens)
      IN  /\ \E f \in Fields(c.opens[1], "/dev/bus/usb/", "/") :
               IsPadded3(f[1], c.args[1]) /\ IsPadded3(f[2], c.args[2])
          /\ n >= 2 =>
               \E f \in Fields(c.opens[2], "/dev/usbdev", ".") :
                 IsPlain(f[1], c.args[1]) /\ IsPlain(f[2], c.args[2])
          /\ n >= 3 =>
               \E f \in Fields(c.opens[3], "/proc/bus/usb/", "/") :
                 IsPadded3(f[1], c.args[1]) /\ IsPadded3(f[2], c.args[2])

\* from_busdev(1, 2) tried all three paths.
C25_Witness ==
    /\ dev.call.op = "from_busdev"
    /\ dev.call.opens = << "/dev/bus/usb/001/002", "/dev/usbdev1.2",
                           "/proc/bus/usb/001/002" >>

\* C26 as stated: a synchronous control transfer with no buffer issues a
\* request with length field 0 and a null data pointer; with a buffer of n
\* bytes it issues a request whose length field equals n and whose data
\* pointer is the buffer, for every n.
C26_DataLength ==
    IsControlTransfer(dev.call) =>
      LET odata == dev.call.args[7]
          req   == dev.call.req
      IN  /\ ~odata.some => (req.wLength = 0 /\ req.data = NullPtr)
          /\ odata.some => (req.wLength = odata.len /\ req.data = odata.addr)

\* C26 within the range of the length field: the same, with the length field
\* equal to n modulo 2^16, which is n for every n up to 65535.
C26_DataLengthU16 ==
    IsControlTransfer(dev.call) =>
      LET odata == dev.call.args[7]
          req   == dev.call.req
      IN  /\ ~odata.some => (req.wLength = 0 /\ req.data = NullPtr)
          /\ odata.some =>
               /\ req.wLength = odata.len % (U16_MAX + 1)
               /\ odata.len <= U16_MAX => req.wLength = odata.len
               /\ req.data = odata.addr

\* A control transfer was issued with a buffer of 65536 bytes: the request
\* carries the buffer's address and the length field 0.
C26_Witness ==
    /\ IsControlTransfer(dev.call)
    /\ dev.call.args[7].some
    /\ dev.call.args[7].len = U16_MAX + 1
    /\ dev.call.req.wLength = 0
    /\ dev.call.req.data = DataAddr

\* Control transfers were issued without a buffer and with the largest one
\* the length field can count.
C26_U16Witness ==
    /\ IsControlTransfer(dev.call)
    /\ \/ ~dev.call.args[7].some
       \/ dev.call.args[7].len = U16_MAX /\ dev.call.req.wLength = U16_MAX

\* C27: the URB the kernel is handed by submit is wired and carries as its
\* tag the index of the slot the transfer was just put into; at every state
\* from then until the reap that returns it, the tag in an in-flight
\* transfer's URB is the index of the slot that holds the transfer; a
\* successful submit, a resubmission included, stamps the slot it returns,
\* which is the slot insert_transfer picked in the table before the call.
C27_TagIsSlot ==
    [][ /\ \A x \in Xfers : InKernel(x, kpending', kdone') =>
             LET tag == xfer'[x].urb.usercontext
             IN  tag + 1 \in DOMAIN transfers' /\ transfers'[tag + 1] = x
        /\ \A u \in kpending' :
             /\ u.urb.buffer # NullPtr
             /\ u.urb.usercontext + 1 \in DOMAIN transfers'
             /\ transfers'[u.urb.usercontext + 1] = u.urbp
        /\ (IsSubmit(last') /\ last'.res = "Ok") =>
             /\ last'.slot = {xfer'[last'.arg].urb.usercontext}
             /\ xfer'[last'.arg].urb.usercontext = SlotTried(transfers)
             /\ \E u \in kpending' \ kpending :
                  /\ u.urbp = last'.arg
                  /\ u.urb.usercontext = SlotTried(transfers)
      ]_vars

\* Transfer 2 was resubmitted into slot 0 after it had been in flight in
\* slot 1 next to transfer 1 in slot 0: both were completed and reaped, and
\* transfer 1 still carries its tag 0.
C27_Witness ==
    /\ IsSubmit(last) /\ last.res = "Ok" /\ last.arg = 2
    /\ last.slot = {0}
    /\ transfers = << 2, None >>
    /\ xfer[2].urb.usercontext = 0
    /\ xfer[2].urb.status # EINVAL_STATUS
    /\ xfer[1].urb.usercontext = 0
    /\ xfer[1].urb.status # EINVAL_STATUS

\* C28 as stated: for a StdBufTransfer control transfer, wire_urb on a
\* buffer shorter than 8 bytes panics, and after every other wire_urb the
\* first 8 bytes of the buffer are the bus-endian setup packet of the
\* request, with its length field equal to the current buffer length - 8,
\* whether or not the buffer was replaced or resized since construction.
C28_StdControlFraming ==
    [][ (last'.op = "wire_urb" /\ xfer[last'.arg].kind = "std_control") =>
          LET t   == xfer[last'.arg]
              t2  == xfer'[last'.arg]
              len == Len(t.buf.bytes)
          IN  /\ len < SETUP_LEN => last'.res = "panic"
              /\ len >= SETUP_LEN =>
                   /\ last'.res = "Ok"
                   /\ SubSeq(t2.buf.bytes, 1, SETUP_LEN)
                        = SetupImage([t.setup EXCEPT
                                        !.wLength = len - SETUP_LEN])
      ]_vars

\* What wire_urb does for a StdBufTransfer control transfer: it never
\* panics, leaves every byte of the buffer as it is, and points the URB at the
\* current buffer with its current length; the setup packet in a buffer is
\* the one the constructor wrote.
C28_StdControlWiresOnly ==
    [][ (last'.op = "wire_urb" /\ xfer[last'.arg].kind = "std_control") =>
          LET t   == xfer[last'.arg]
              t2  == xfer'[last'.arg]
          IN  /\ last'.res = "Ok"
              /\ t2.buf = t.buf
              /\ t2.urb.buffer = t.buf.addr
              /\ t2.urb.buffer_length = Len(t.buf.bytes)
      ]_vars

\* wire_urb returned on a StdBufTransfer control transfer whose buffer the
\* caller had replaced: the buffer holds no setup packet.
C28_Witness ==
    /\ last.op = "wire_urb" /\ last.res = "Ok"
    /\ xfer[last.arg].kind = "std_control"
    /\ Len(xfer[last.arg].buf.bytes) = SETUP_LEN + MaxPayload
    /\ \A i \in 1..SETUP_LEN : xfer[last.arg].buf.bytes[i] = 170

\* wire_urb returned on a StdBufTransfer control transfer whose buffer was
\* cut to 7 bytes.
C28_ShortWitness ==
    /\ last.op = "wire_urb" /\ last.res = "Ok"
    /\ xfer[last.arg].kind = "std_control"
    /\ Len(xfer[last.arg].buf.bytes) = SETUP_LEN - 1

\* wire_urb returned on a StdBufTransfer control transfer constructed with
\* 24 bytes and resized to 10: the length field still says 16.
C28_ResizedWitness ==
    /\ last.op = "wire_urb" /\ last.res = "Ok"
    /\ xfer[last.arg].kind = "std_control"
    /\ Len(xfer[last.arg].buf.bytes) = SETUP_LEN + MaxPayload
    /\ LeU16(xfer[last.arg].buf.bytes, 6) = 16

\* C29: in every state reachable through construction, wire_urb, submit and
\* reap an IsoBufTransfer has 0 <= number_of_packets <= 32, so status() does
\* not panic and returns exactly the first number_of_packets descriptors;
\* before the first wiring that is the empty sequence.
C29_StatusPrefix ==
    /\ \A x \in Xfers : xfer[x].kind = "iso" =>
         /\ xfer[x].urb.number_of_packets \in 0..MAX_ISO_PACKETS
         /\ Len(xfer[x].iso_packets) = MAX_ISO_PACKETS
         /\ ~IsoBufTransferStatus(xfer[x]).panic
         /\ Len(IsoBufTransferStatus(xfer[x]).val) = xfer[x].urb.number_of_packets
         /\ \A i \in 1..xfer[x].urb.number_of_packets :
              IsoBufTransferStatus(xfer[x]).val[i] = xfer[x].iso_packets[i]
         /\ xfer[x].urb.buffer = NullPtr => IsoBufTransferStatus(xfer[x]).val = <<>>
    /\ last.op = "status" => last.res = "Ok"

\* status() was called on a transfer reaped after a successful completion
\* whose buffer needed more than the 32 descriptors: it returns all 32.
C29_Witness ==
    /\ last.op = "status" /\ last.res = "Ok"
    /\ xfer[last.arg].urb.status = 0
    /\ Len(xfer[last.arg].buf.bytes) = MaxPayload * (MAX_ISO_PACKETS + 1)
    /\ Len(IsoBufTransferStatus(xfer[last.arg]).val) = MAX_ISO_PACKETS
    /\ IsoBufTransferStatus(xfer[last.arg]).val[MAX_ISO_PACKETS].actual_length
         = MaxPayload

\* status() was called on a transfer with a non-empty buffer that was never
\* wired.
C29_UnwiredWitness ==
    /\ last.op = "status" /\ last.res = "Ok"
    /\ xfer[last.arg].urb.buffer = NullPtr
    /\ Len(xfer[last.arg].buf.bytes) > 0
    /\ IsoBufTransferStatus(xfer[last.arg]).val = <<>>

\* C30: as long as no submission was accepted, so that the kernel completed
\* nothing, the URB of every transfer and every packet descriptor has status
\* -22 and actual length 0, and result_length of a StdBufTransfer is an
\* error; in every state result_length is an error exactly when the relevant
\* status (packet 0's for an isochronous transfer, the URB's otherwise) is
\* negative, and otherwise it is the relevant actual length.
C30_NeverCompletedFails ==
    /\ nSubmitted = 0 =>
         \A x \in Xfers :
           /\ xfer[x].urb.status = EINVAL_STATUS
           /\ xfer[x].urb.actual_length = 0
           /\ \A i \in DOMAIN xfer[x].iso_packets :
                /\ xfer[x].iso_packets[i].status = EINVAL_STATUS
                /\ xfer[x].iso_packets[i].actual_length = 0
           /\ xfer[x].kind \in StdKinds => ~result_length(xfer[x]).ok
    /\ \A x \in Xfers : xfer[x].kind \in StdKinds =>
         LET t  == xfer[x]
             r  == result_length(t)
             st == IF t.kind = "std_iso" THEN t.iso_packets[1].status
                   ELSE t.urb.status
             al == IF t.kind = "std_iso" THEN t.iso_packets[1].actual_length
                   ELSE t.urb.actual_length
         IN  /\ r.ok <=> st >= 0
             /\ r.ok => r.val = al
    /\ last.op = "result_length" =>
         /\ last.res = "Ok" <=> result_length(xfer[last.arg]).ok
         /\ last.tag = {result_length(xfer[last.arg]).val}

\* result_length was called on a StdBufTransfer isochronous transfer that
\* was wired and handed back by a rejected submission, never completed.
C30_Witness ==
    /\ last.op = "result_length" /\ last.res = "Err"
    /\ nSubmitted = 0
    /\ xfer[last.arg].kind = "std_iso"
    /\ xfer[last.arg].urb.buffer # NullPtr

\* result_length was called on a reaped StdBufTransfer and returned the
\* number of bytes transferred.
C30_CompletedWitness ==
    /\ last.op = "result_length" /\ last.res = "Ok"
    /\ last.tag = {MaxPayload + 1}
    /\ xfer[last.arg].kind = "std_iso"

\* C31: BulkTransfer::new and InterruptTransfer::new panic whenever the
\* endpoint has bit 7 (IN) set and build no object, so every BulkTransfer or
\* InterruptTransfer that exists, and every URB of one that the kernel was
\* handed, has an OUT endpoint; every other constructor call (an OUT
\* endpoint, or a Mut type with either direction) succeeds and builds an
\* object of that type with that endpoint.
C31_ImmutableOnlyOut ==
    /\ last.op = "new" =>
         IF last.kind \in ImmutableKinds /\ IsInEndpoint(last.endpoint)
         THEN /\ last.res = "panic"
              /\ pc = "panicked"
              /\ owner[last.arg] = "unbuilt"
         ELSE /\ last.res = "Ok"
              /\ owner[last.arg] = "caller"
              /\ xfer[last.arg].kind = last.kind
              /\ xfer[last.arg].urb.endpoint = last.endpoint
    /\ \A x \in Xfers :
         xfer[x].kind \in ImmutableKinds =>
             ~IsInEndpoint(xfer[x].urb.endpoint)
    /\ \A u \in kpending :
         xfer[u.urbp].kind \in ImmutableKinds =>
             /\ ~IsInEndpoint(u.urb.endpoint)
             /\ u.urb.endpoint < 128

\* An immutable-buffer constructor was called with an IN endpoint.
C31_Witness ==
    /\ last.op = "new"
    /\ last.kind \in ImmutableKinds
    /\ IsInEndpoint(last.endpoint)

\* The kernel holds the URB of an immutable-buffer transfer (an OUT one) and,
\* in another run, the URB of a Mut transfer on an IN endpoint.
C31_SubmittedWitness ==
    \E u \in kpending :
        /\ xfer[u.urbp].kind = "InterruptTransfer"
        /\ u.urb.endpoint = 2

C31_MutInWitness ==
    \E u \in kpending :
        /\ xfer[u.urbp].kind = "BulkTransferMut"
        /\ u.urb.endpoint = 129

\* C32: a submit call has, for the same table, transfer and kernel answer,
\* the effect of submit_give_back_on_fail on the slot table, on the URB and
\* on the kernel (the ioctls issued, the URB the kernel holds), and the same
\* result and error; the one difference is on failure, where
\* submit_give_back_on_fail hands the transfer back to the caller and submit
\* returns the error alone and drops it.
C32_SubmitEquivalent ==
    [][ last'.op = "submit" =>
          \E accept \in BOOLEAN :
            LET x == last'.arg
                g == SubmitGiveBackOnFail(transfers, x, xfer[x], accept, gone)
            IN  /\ last'.res = g.res
                /\ last'.err = g.err
                /\ last'.slot = g.slot
                /\ last'.ioctls = g.ioctls
                /\ transfers' = g.transfers
                /\ xfer'[x] = g.t
                /\ kpending' = IF g.res = "Ok"
                               THEN kpending \cup
                                      {[urbp |-> x, urb |-> g.t.urb,
                                        addr |-> HeapAddr(x)]}
                               ELSE kpending
                /\ kdone' = kdone
                /\ IF g.res = "Err"
                   THEN /\ g.back = x
                        /\ last'.xfer = None
                        /\ owner'[x] = "dropped"
                   ELSE /\ last'.xfer = g.back
                        /\ g.res = "Ok" => owner'[x] = "engine"
                /\ \A y \in Xfers \ {x} : owner'[y] = owner[y]
      ]_vars

\* A submit call was rejected by the kernel and dropped its transfer.
C32_Witness ==
    /\ last.op = "submit" /\ last.res = "Err"
    /\ owner[last.arg] = "dropped"

\* A submit call was accepted.
C32_AcceptedWitness ==
    /\ last.op = "submit" /\ last.res = "Ok"
    /\ \E u \in kpending : u.urbp = last.arg

\* C33: a submit call that fails (either variant) leaves the table as it was
\* but for its length: every slot of the old table holds what it held, the
\* set of occupied indices is the same, and the length is the old one when
\* the old table had a free slot and the old one plus one, with an empty last
\* slot, when it had none.
C33_FailedSubmitFrame ==
    [][ (IsSubmit(last') /\ last'.res = "Err") =>
          /\ Occupied(transfers') = Occupied(transfers)
          /\ \A i \in DOMAIN transfers : transfers'[i] = transfers[i]
          /\ Len(transfers') \in {Len(transfers), Len(transfers) + 1}
          /\ Len(transfers') = Len(transfers) + 1 <=>
                 Occupied(transfers) = DOMAIN transfers
          /\ Len(transfers') = Len(transfers) + 1 =>
                 transfers'[Len(transfers')] = None
      ]_vars

\* A submit failed while the other transfer filled the table's only slot:
\* the table got a second, empty slot.
C33_Witness ==
    /\ last.op = "submit" /\ last.res = "Err"
    /\ Len(transfers) = 2
    /\ transfers[1] # None /\ transfers[2] = None

\* A submit failed while the table had a free slot below an occupied one.
C33_FreeSlotWitness ==
    /\ IsSubmit(last) /\ last.res = "Err"
    /\ Len(transfers) = 2
    /\ transfers[1] = None /\ transfers[2] # None

\* C34: the slot table never shrinks; its length is the largest number of
\* slots that were occupied at the same time so far, the slot a submit call
\* fills while it runs included; and the number of occupied slots is the
\* number of URBs the kernel accepted and that were not yet reaped (pending
\* or completed), which is the number of transfers with an accepted
\* submission outstanding.
C34_TableLength ==
    [][ /\ Len(transfers') >= Len(transfers)
        /\ Len(transfers') = peak'
        /\ Cardinality(Occupied(transfers')) =
               Cardinality(kpending') + Len(kdone')
        /\ \A x \in Xfers : outstanding'[x] \in {0, 1}
        /\ Cardinality(Occupied(transfers')) =
               Cardinality({x \in Xfers : outstanding'[x] = 1})
      ]_vars

\* Two slots were occupied at once and both were reaped since: the table
\* keeps its two slots, both empty.
C34_Witness ==
    /\ IsReap(last) /\ last.res = "Ok"
    /\ peak = 2 /\ Len(transfers) = 2
    /\ Occupied(transfers) = {}
    /\ kpending = {} /\ kdone = <<>>

\* The table grew during a submit that failed: no two transfers were ever
\* accepted at the same time, yet two slots were occupied during the call.
C34_InProgressWitness ==
    /\ IsSubmit(last) /\ last.res = "Err"
    /\ nSubmitted = 1
    /\ peak = 2 /\ Len(transfers) = 2
    /\ Cardinality(Occupied(transfers)) = 1

\* C35: with a kernel that completes every URB it accepted, a device that
\* stays connected and a caller that keeps making reap calls, every accepted
\* transfer is eventually returned to the caller by a reap, and, submissions
\* being finitely many, eventually every slot is empty for good and the
\* kernel holds no URB.
C35_Liveness ==
    /\ \A x \in 1..STREAM_TRANSFERS :
         (outstanding[x] = 1 /\ owner[x] = "engine") ~>
             (outstanding[x] = 0 /\ owner[x] = "caller"
                /\ IsReap(last) /\ last.res = "Ok" /\ last.xfer = x)
    /\ <>[](Occupied(transfers) = {} /\ kpending = {} /\ kdone = <<>>)

\* Every transfer is accepted and in a slot, with URBs both pending and
\* completed in the kernel.
C35_Witness ==
    /\ \A x \in 1..STREAM_TRANSFERS : outstanding[x] = 1 /\ owner[x] = "engine"
    /\ Occupied(transfers) = DOMAIN transfers
    /\ kpending # {} /\ kdone # <<>>

\* Every accepted transfer was returned: the last of MaxAccepts accepted
\* submissions was reaped and the table is empty.
C35_DrainedWitness ==
    /\ nSubmitted = MaxAccepts
    /\ IsReap(last) /\ last.res = "Ok"
    /\ Occupied(transfers) = {} /\ Len(transfers) = STREAM_TRANSFERS

\* The test of C36 on a name: it does not start with "usb" and holds no ':'.
DeviceName(name) ==
    /\ ~StartsWith(name, "usb")
    /\ \A i \in 1..Len(name) : SubSeq(name, i, i) # ":"

\* C36: from_devpath returns a DeviceInfo (holding the path as given)
\* exactly for the paths whose final component is a name that does not start
\* with "usb" and contains no ':', whatever the directories before it are,
\* and an error (kind Other) for every other path, the paths that have no
\* final name (empty, "/", ".", ending in "..") among them; the enumerator
\* yields, in directory order, exactly the entries that were read without
\* error and whose name passes the same test, and nothing when the directory
\* cannot be read.
C36_DeviceNames ==
    LET c == dev.call
    IN  /\ c.op = "from_devpath" =>
              LET name == c.args[2]
                  path == c.args[1] \o c.args[2] \o c.args[3]
              IN  IF name # "" /\ c.args[3] # "/.." /\ DeviceName(name)
                  THEN c.res = "Ok" /\ c.val = << [dir |-> path] >>
                  ELSE c.res = "Err" /\ c.val = <<>> /\ c.err = "Other"
        /\ c.op = "deviceinfo_enumerate" =>
              LET rd  == c.args[1]
                  e   == rd.entries
                  idx == {i \in 1..Len(e) : e[i].ok /\ DeviceName(e[i].name)}
              IN  /\ ~rd.ok => c.val = <<>>
                  /\ Len(c.val) = Cardinality(idx)
                  /\ \A i \in idx :
                       c.val[Cardinality({k \in idx : k <= i})] =
                           [dir |-> e[i].name]

\* from_devpath was given the sysfs path of an interface, and in another run
\* a device under a directory whose name starts with "usb".
C36_Witness ==
    /\ dev.call.op = "from_devpath"
    /\ dev.call.args = <<"/sys/bus/usb/devices/", "1-0:1.0", "">>
    /\ dev.call.res = "Err"

C36_AcceptWitness ==
    /\ dev.call.op = "from_devpath"
    /\ dev.call.args = <<"usb/", "1-5", "/">>
    /\ dev.call.res = "Ok"

\* The enumerator read a root hub, a device, an erroneous entry and an
\* interface, and yielded the device alone.
C36_EnumerateWitness ==
    /\ dev.call.op = "deviceinfo_enumerate"
    /\ Len(dev.call.args[1].entries) = 3
    /\ dev.call.args[1].entries[1].name = "usb1"
    /\ ~dev.call.args[1].entries[3].ok
    /\ dev.call.val = << [dir |-> "1-5"] >>

====
